---------------------------- MODULE Spec2Model ----------------------------
(***************************************************************************)
(* Go Allocations Explorer: the discovery cache, the benchmark execution   *)
(* coordinator (single run, bounded batch run, cancellation) and the       *)
(* pprof listing parser.                                                   *)
(*                                                                         *)
(* Granularity.  The extension host is single threaded: an action below is *)
(* one turn of the event loop (a command, a host call of getChildren, the  *)
(* completion of a child process, ...) together with every continuation    *)
(* that runs in the microtask queue before the next event is dispatched    *)
(* (awaits on promises that are already settled, finally blocks, the       *)
(* listeners AbortController.abort() calls synchronously).                 *)
(***************************************************************************)
EXTENDS Integers, Sequences, FiniteSets, TLC

VARIABLES
    \* ---- cancellation scope of the Provider (abortController)
    ctl,          \* id of the current AbortController
    aborted,      \* ids of the controllers whose signal is aborted
    \* ---- Provider.runAllBenchmarksSimple / TreeDataProvider.runAllBenchmarks
    variant,      \* which batch runner this behaviour exercises
    nBench,       \* K: number of benchmark items the batch iterates over
    batch,        \* "idle" | "running" | "returned"
    batchSig,     \* the signal captured at the start of the batch
    task,         \* per benchmark: position of its async task in the batch
    sema,         \* async-sema Sema: [free, waiting]
    run,          \* per benchmark: the BenchmarkItem.getChildren execution
    \* ---- extension.ts run-all command (slot array)
    extCtl,       \* currentAbortController: 0 = null, else controller id
    extMade,      \* number of AbortControllers the commands created so far
    extSig,       \* abortSignal captured by the running command (0 = none)
    extPhase,     \* "idle" | "collect" | "batch" | "returned"
    extN,         \* allBenchmarks.length
    extSingle,    \* the run-single command: its position and its abortSignal
    extBase,      \* index of the first benchmark of the current batch, less 1
    extTask,      \* per benchmark: position of its batchPromise
    semaphore,    \* the slot array: 0 = null, else the benchmark holding it
    \* ---- discovery of provider.ts (Provider)
    nRoots,              \* workspaceFolders.length (0: no folder is open)
    nested,              \* folder 2 is a sub-directory of folder 1, in its module
    abortController,     \* id of the Provider's current AbortController
    abortedSignals,      \* ids of the controllers whose signal is aborted
    modules,             \* the cache: sequence of [name, by, packages]
    cacheGen,            \* identity of the array this.modules refers to
    packagesLoaded,
    discoveryInProgress,
    pass,                \* per discovery pass: the loadPackages() activation
    nPass,               \* passes started so far
    sinceRefresh,        \* history: what the first root getChildren() after
                         \* the last refresh() did
    newPass,             \* history: the pass that call started (0: none)
    \* ---- the profile parsers (strings are sequences of characters)
    parser,              \* "stream": BenchmarkItem.parseMemoryProfile of
                         \* part_008; "filter": Provider.parseMemoryProfile of
                         \* goAllocationsProvider.ts, which asks isUserCode
    goMod,               \* this.goMod (<<>>: none)
    goRoot,              \* this.goRoot (<<>>: none)
    listing,             \* the lines `go tool pprof -list` prints
    pos,                 \* number of lines handled so far
    items,               \* the items array
    currentFunction,
    currentFile,
    inFunction,
    results,             \* what the parser returned (<<>>: not yet)
    stderr,              \* the text the 'data' events of child.stderr added
    code,                \* exit code the child 'close' event carried (-1: none yet)
    events,              \* history: "rl" (readline close), "child" (child
                         \* close), "error" (child error), in order of arrival
    \* ---- TreeDataProvider of treedata.ts (workspace symbol discovery)
    tFolders,            \* workspaceFolders.length (0: no folder is open)
    tSyms,               \* benchmark symbols gopls reports under each folder
    tCtl,                \* id of the TreeDataProvider's current AbortController
    tAborted,            \* ids of the controllers whose signal is aborted
    tModules,            \* this.modules: sequence of [name, by, packages]
    tGen,                \* identity of the array this.modules refers to
    benchmarkItems,      \* keys of the BenchmarkItemCache
    loadingPromise,      \* 0: null, else the pass whose promise it holds
    tPass,               \* per discovery pass: the loadModules() activation
    tNPass,              \* passes started so far
    find,                \* the findBenchmark() call
    \* ---- the string functions, applied to one argument
    fnName,              \* the function in work ("none": none)
    fnArg,               \* its argument
    fnRes,               \* <<>>: not applied yet, else <<its result>>
    \* ---- the providers of goAllocationsProvider.ts (flat package list)
    flatClass,           \* "Provider" or "GoAllocationsProvider"
    flatFolders,         \* workspaceFolders.length (0: no folder is open)
    flatPackages,        \* this.packages: sequence of [path, by, benchmarks]
    flatGen,             \* identity of the array this.packages refers to
    flatLoaded,          \* packagesLoaded
    flatInProgress,      \* discoveryInProgress
    flatPass,            \* per discovery pass: the loadPackages() activation
    flatNPass            \* passes started so far

batchVars == <<variant, ctl, aborted, nBench, batch, batchSig, task, sema, run>>
extVars   == <<extCtl, extMade, extSig, extPhase, extN, extSingle, extBase, extTask,
               semaphore>>
discVars  == <<nRoots, nested, abortController, abortedSignals, modules, cacheGen,
               packagesLoaded, discoveryInProgress, pass, nPass,
               sinceRefresh, newPass>>
parseVars == <<parser, goMod, goRoot, listing, pos, items, currentFunction,
               currentFile, inFunction, results, stderr, code, events>>
treeVars  == <<tFolders, tSyms, tCtl, tAborted, tModules, tGen, benchmarkItems,
               loadingPromise, tPass, tNPass, find>>
fnVars    == <<fnName, fnArg, fnRes>>
flatVars  == <<flatClass, flatFolders, flatPackages, flatGen, flatLoaded, flatInProgress,
               flatPass, flatNPass>>
outsideBatch == <<discVars, parseVars, treeVars, fnVars, flatVars>>
outsideDisc  == <<batchVars, extVars, parseVars, treeVars, fnVars, flatVars>>
outsideParse == <<batchVars, extVars, discVars, treeVars, fnVars, flatVars>>
outsideTree  == <<batchVars, extVars, discVars, parseVars, fnVars, flatVars>>
outsideFn    == <<batchVars, extVars, discVars, parseVars, treeVars, flatVars>>
outsideFlat  == <<batchVars, extVars, discVars, parseVars, treeVars, fnVars>>
vars      == <<batchVars, extVars, discVars, parseVars, treeVars, fnVars, flatVars>>

-----------------------------------------------------------------------------
(* Bounds of the model *)
MaxBench  == 3      \* benchmarks in a semaphore batch
MaxCancel == 2      \* cancelAll() / stop calls in a behaviour
MaxExtBench == 5    \* benchmarks in the extension.ts batch
MaxRoots  == 2      \* workspace folders
MaxPkgs   == 2      \* package lines `go list ./...` prints for a root
MaxPass   == 3      \* discovery passes in a behaviour
MaxRefresh == 2     \* refresh() / cancelAll() calls in a discovery behaviour
MaxSyms == 2        \* benchmark symbols under a workspace folder
MaxFlatPass == 2    \* discovery passes of the flat package list in a behaviour
MaxFlatRefresh == 1 \* refresh() calls on the flat package list in a behaviour
MaxOut  == 3        \* lines `go test -list` prints
MaxLines  == 3      \* lines of a listing drawn from the pool of lines

(* Program constants *)
SemaCapacity == 2   \* new Sema(2)
concurrency  == 4   \* const concurrency = 4

Benchmarks    == 1..MaxBench
ExtBenchmarks == 1..MaxExtBench

ErrorItem         == "error"    \* new InformationItem(msg, 'error')
NoAllocationsItem == "info"     \* InformationItem('No allocations found', 'info')
AllocationItem    == "alloc"    \* new AllocationItem(...)

-----------------------------------------------------------------------------
(***************************************************************************)
(* One benchmark execution: BenchmarkItem.getChildren(signal)              *)
(* (Provider.getAllocationData in provider.ts is the same code).           *)
(*   pc    "idle" | "bench" (awaiting execAsync) | "parse" (awaiting the   *)
(*         pprof promise) | "unlink" (awaiting fs.promises.unlink in the   *)
(*         finally block) | "returned"                                     *)
(*   proc  the `go test -bench` child: "none" | "running" | "exited" (its  *)
(*         'exit' was emitted, 'close' not yet) | "terminating" (killed by *)
(*         the abort listener, not yet dead) | "gone"                      *)
(*   path  memprofilePath (0: none chosen)                                 *)
(*   exc   the try block ended by throwing; val: the value it returned     *)
(*   ret   what getChildren returned to its caller                         *)
(*   exit  how the child exited by itself: "none" | "ok" | "fail"          *)
(*   unlinks, procAtUnlink: how often unlink(memprofilePath) was issued    *)
(*         and the state of the child when it was                          *)
(*   again: history: the host asked for the children a second time        *)
(*   parsed, cancelled: history: the pprof promise settled; abort() was    *)
(*         called on the signal before or while the child or pprof ran     *)
(***************************************************************************)
IdleRun ==
    [pc |-> "idle", sig |-> 0, proc |-> "none", exit |-> "none", path |-> 0,
     exc |-> FALSE, val |-> <<>>, ret |-> <<>>, unlinks |-> 0,
     procAtUnlink |-> "none", parsed |-> FALSE, cancelled |-> FALSE,
     again |-> FALSE]

\* finally { await fs.promises.unlink(memprofilePath) }
Cleanup(r, threw, v) ==
    [r EXCEPT !.pc = "unlink", !.exc = threw, !.val = v,
              !.unlinks = @ + 1, !.procAtUnlink = r.proc]

\* (variant of StartRun that keeps the records of the previous run and
\* returns them when the children are asked for again)
StartRunStored(r, t, s) ==
    IF s \in aborted
    THEN [r EXCEPT !.pc = "returned", !.sig = s, !.ret = <<ErrorItem>>,
                   !.cancelled = TRUE]
    ELSE IF r.again
    THEN [r EXCEPT !.pc = "returned", !.sig = s, !.ret = <<AllocationItem>>]
    ELSE [r EXCEPT !.pc = "bench", !.sig = s, !.path = t, !.proc = "running"]

\* getChildren up to its first await: the cancellation check, the temporary
\* path, the spawn of `go test -bench=^name$ -memprofile=path` with the signal
StartRun(r, t, s) ==
    IF s \in aborted
    THEN [r EXCEPT !.pc = "returned", !.sig = s, !.ret = <<ErrorItem>>,
                   !.cancelled = TRUE]
    ELSE [r EXCEPT !.pc = "bench", !.sig = s, !.path = t, !.proc = "running"]

\* (variant of AfterBench without the finally block: a failed command
\* returns the error item at once and leaves the file behind)
AfterBenchNoFinally(r, ok) ==
    IF ~ok THEN [r EXCEPT !.pc = "returned", !.ret = <<ErrorItem>>]
    ELSE IF r.sig \in aborted THEN Cleanup(r, TRUE, <<>>)
    ELSE [r EXCEPT !.pc = "parse"]

\* the continuation of `await execAsync(cmd, {signal})` once the child closed
AfterBench(r, ok) ==
    IF ~ok THEN Cleanup(r, TRUE, <<>>)                  \* execAsync rejected
    ELSE IF r.sig \in aborted THEN Cleanup(r, TRUE, <<>>)  \* 'Operation cancelled'
    ELSE [r EXCEPT !.pc = "parse"]                      \* spawn go tool pprof

\* how the promise inside parseMemoryProfile can settle
ParseSettlements ==
    { [ok |-> TRUE,  items |-> <<>>],
      [ok |-> TRUE,  items |-> <<AllocationItem>>],
      [ok |-> TRUE,  items |-> <<NoAllocationsItem>>],
      [ok |-> FALSE, items |-> <<>>] }

\* parseMemoryProfile after its promise settled: the empty case and the catch
ParseReturn(st) ==
    IF ~st.ok THEN <<ErrorItem>>
    ELSE IF Len(st.items) = 0 THEN <<NoAllocationsItem>>
    ELSE st.items

AfterParse(r, st) == Cleanup([r EXCEPT !.parsed = TRUE], FALSE, ParseReturn(st))

\* what AbortController.abort() does to an execution started with that signal:
\* the abort listener of the child kills it and emits 'error' (AbortError), so
\* the awaited promise rejects at once; the child itself dies later
\* (a child whose 'exit' was already emitted has dropped the listener)
AbortRun(r) ==
    IF r.pc = "bench" /\ r.proc = "running"
    THEN Cleanup([r EXCEPT !.proc = "terminating", !.cancelled = TRUE], TRUE, <<>>)
    ELSE IF r.pc = "bench"
    THEN [r EXCEPT !.cancelled = TRUE]
    ELSE IF r.pc = "parse"
    THEN AfterParse([r EXCEPT !.cancelled = TRUE], [ok |-> FALSE, items |-> <<>>])
    ELSE r

\* (variant of ReturnRun whose catch swallows the error and returns no item)
ReturnRunSwallow(r) ==
    [r EXCEPT !.pc = "returned", !.ret = IF r.exc THEN <<>> ELSE r.val]

\* the outer catch and the return of getChildren, after the unlink settled
\* (an unlink that fails is caught and logged: same continuation)
ReturnRun(r) ==
    [r EXCEPT !.pc = "returned", !.ret = IF r.exc THEN <<ErrorItem>> ELSE r.val]

-----------------------------------------------------------------------------
(***************************************************************************)
(* async-sema: acquire() pops a free token or queues the caller (FIFO);    *)
(* release() hands the token to the first waiter or frees it.              *)
(* A waiter that obtains the token runs `if (signal.aborted) return` and   *)
(* its finally block releases again, in the same turn.                     *)
(***************************************************************************)
\* (variant of ReleaseSlot for a task that ends without its finally block)
ReleaseSlotLeak(tk, sm, ab) == [task |-> tk, sema |-> sm]

RECURSIVE ReleaseSlot(_, _, _)
ReleaseSlot(tk, sm, ab) ==
    IF sm.waiting = <<>>
    THEN [task |-> tk, sema |-> [sm EXCEPT !.free = @ + 1]]
    ELSE LET h   == Head(sm.waiting)
             sm2 == [sm EXCEPT !.waiting = Tail(@)]
         IN  IF ab
             THEN ReleaseSlot([tk EXCEPT ![h] = "done"], sm2, ab)
             ELSE [task |-> [tk EXCEPT ![h] = "reveal"], sema |-> sm2]

\* (variant of Acquire that admits the task whether or not a token is free)
AcquireNoWait(st, t) ==
    [task |-> [st.task EXCEPT ![t] = "reveal"],
     sema |-> [st.sema EXCEPT !.free = IF @ > 0 THEN @ - 1 ELSE 0]]

\* sema.acquire() of the k-th submitted task
Acquire(st, t) ==
    IF st.sema.free > 0
    THEN [task |-> [st.task EXCEPT ![t] = "reveal"],
          sema |-> [st.sema EXCEPT !.free = @ - 1]]
    ELSE [task |-> [st.task EXCEPT ![t] = "waiting"],
          sema |-> [st.sema EXCEPT !.waiting = Append(@, t)]]

RECURSIVE SubmitAll(_, _, _)
SubmitAll(st, t, n) ==
    IF t > n THEN st ELSE SubmitAll(Acquire(st, t), t + 1, n)

AllDone(tk, n) == \A t \in 1..n : tk[t] = "done"

\* await Promise.all(promises); await sema.drain(): the batch returns in the
\* turn in which the last task finished; drain() takes every token
Finish(st, n) ==
    IF AllDone(st.task, n)
    THEN [task |-> st.task, sema |-> [st.sema EXCEPT !.free = 0], batch |-> "returned"]
    ELSE [task |-> st.task, sema |-> st.sema, batch |-> "running"]

NoTasks == [t \in Benchmarks |-> "none"]

\* runAllBenchmarksSimple(treeView) / runAllBenchmarks(treeView)
RunAll ==
    /\ variant = "sema" /\ batch = "idle"
    /\ LET st == SubmitAll([task |-> NoTasks,
                            sema |-> [free |-> SemaCapacity, waiting |-> <<>>]],
                           1, nBench)
           fin == Finish(st, nBench)
       IN  /\ task' = fin.task /\ sema' = fin.sema /\ batch' = fin.batch
    /\ batchSig' = ctl
    /\ UNCHANGED <<outsideBatch, variant, ctl, aborted, nBench, run, extVars>>

\* the host answers reveal(benchmarkItem, {expand}) by asking the provider for
\* the children: Provider.getChildren passes this.abortSignal(), the signal
\* current at that moment
HostGetChildren(t) ==
    /\ variant = "sema" /\ task[t] = "reveal"
    /\ run' = [run EXCEPT ![t] = StartRun(@, t, ctl)]
    /\ task' = [task EXCEPT ![t] = "exec"]
    /\ UNCHANGED <<outsideBatch, variant, ctl, aborted, nBench, batch, batchSig, sema, extVars>>

\* the host asks for the children of a benchmark whose run returned, after
\* the batch: Provider.getChildren calls element.getChildren(abortSignal())
\* as for the first time (once in a behaviour)
HostGetChildrenAgain(t) ==
    /\ variant = "sema" /\ batch = "returned" /\ run[t].pc = "returned"
    /\ \A u \in Benchmarks : ~run[u].again
    /\ run' = [run EXCEPT ![t] = StartRun([IdleRun EXCEPT !.again = TRUE], t, ctl)]
    /\ UNCHANGED <<outsideBatch, variant, ctl, aborted, nBench, batch, batchSig, task,
                   sema, extVars>>

TaskEnds(t) ==
    LET rel == ReleaseSlot([task EXCEPT ![t] = "done"], sema, batchSig \in aborted)
        fin == Finish(rel, nBench)
    IN  /\ task' = fin.task /\ sema' = fin.sema /\ batch' = fin.batch

\* reveal resolves once the children are there: finally { sema.release() }
RevealResolves(t) ==
    /\ variant = "sema" /\ task[t] = "exec" /\ run[t].pc = "returned"
    /\ TaskEnds(t)
    /\ UNCHANGED <<outsideBatch, variant, ctl, aborted, nBench, batchSig, run, extVars>>

\* reveal rejects (the element cannot be resolved): catch, then finally
RevealRejects(t) ==
    /\ variant = "sema" /\ task[t] = "reveal"
    /\ TaskEnds(t)
    /\ UNCHANGED <<outsideBatch, variant, ctl, aborted, nBench, batchSig, run, extVars>>

\* the benchmark child exits by itself ('exit'), successfully or not
ProcExit(t, ok) ==
    /\ run[t].pc = "bench" /\ run[t].proc = "running"
    /\ run' = [run EXCEPT ![t].proc = "exited", ![t].exit = IF ok THEN "ok" ELSE "fail"]
    /\ UNCHANGED <<outsideBatch, variant, ctl, aborted, nBench, batch, batchSig, task, sema, extVars>>

\* its stdio closed ('close'): the exec callback settles the promise
ProcClose(t) ==
    /\ run[t].pc = "bench" /\ run[t].proc = "exited"
    /\ run' = [run EXCEPT ![t] = AfterBench([@ EXCEPT !.proc = "gone"], run[t].exit = "ok")]
    /\ UNCHANGED <<outsideBatch, variant, ctl, aborted, nBench, batch, batchSig, task, sema, extVars>>

\* a killed child finally dies; nobody listens any more
ProcDies(t) ==
    /\ run[t].proc = "terminating"
    /\ run' = [run EXCEPT ![t].proc = "gone"]
    /\ UNCHANGED <<outsideBatch, variant, ctl, aborted, nBench, batch, batchSig, task, sema, extVars>>

\* the pprof promise settles
ParseSettles(t, st) ==
    /\ run[t].pc = "parse"
    /\ run' = [run EXCEPT ![t] = AfterParse(@, st)]
    /\ UNCHANGED <<outsideBatch, variant, ctl, aborted, nBench, batch, batchSig, task, sema, extVars>>

UnlinkSettles(t) ==
    /\ run[t].pc = "unlink"
    /\ run' = [run EXCEPT ![t] = ReturnRun(@)]
    /\ UNCHANGED <<outsideBatch, variant, ctl, aborted, nBench, batch, batchSig, task, sema, extVars>>

\* Provider.cancelAll(): abort the current controller, allocate a new one
CancelAll ==
    /\ variant = "sema" /\ ctl <= MaxCancel
    /\ aborted' = aborted \cup {ctl}
    /\ ctl' = ctl + 1
    /\ run' = [t \in Benchmarks |-> IF run[t].sig = ctl THEN AbortRun(run[t]) ELSE run[t]]
    /\ UNCHANGED <<outsideBatch, variant, nBench, batch, batchSig, task, sema, extVars>>

-----------------------------------------------------------------------------
(***************************************************************************)
(* extension.ts: the run-all command with its slot array.                  *)
(*   extTask  "none" | "polling" (checkSlot found no free slot and waits   *)
(*            for its 10 ms timer) | "reveal" (awaiting treeView.reveal)   *)
(*            | "run" (awaiting provider.getChildren(benchmark, signal))   *)
(*            | "done"                                                     *)
(***************************************************************************)
\* the run-all command of extension.ts ("slots") and of the earlier
\* extension whose processBenchmarks polls every 100 ms ("poll")
ExtVariants == {"slots", "poll"}

FreeSlots(sl) == {i \in 1..concurrency : sl[i] = 0}

Min(S) == CHOOSE x \in S : \A y \in S : x <= y

\* checkSlot() and, when it resolves, the start of runBenchmark(benchmark)
TakeSlot(st, t) ==
    IF FreeSlots(st.semaphore) = {}
    THEN [extTask |-> [st.extTask EXCEPT ![t] = "polling"], semaphore |-> st.semaphore]
    ELSE [extTask |-> [st.extTask EXCEPT ![t] = "reveal"],
          semaphore |-> [st.semaphore EXCEPT ![Min(FreeSlots(st.semaphore))] = t]]

RECURSIVE TakeSlots(_, _, _)
TakeSlots(st, t, last) ==
    IF t > last THEN st ELSE TakeSlots(TakeSlot(st, t), t + 1, last)

\* extension.ts slices allBenchmarks into batches of `concurrency`;
\* processBenchmarks of the earlier extension maps over all of them at once
BatchEnd(base, n) ==
    IF variant = "poll" THEN n
    ELSE IF base + concurrency < n THEN base + concurrency ELSE n

\* for (const batch of batches): the abort check, then batch.map(async ...)
\* up to the first real suspension of every batchPromise
StartBatch(st, base, n, ab) ==
    IF base >= n \/ ab
    THEN [extTask |-> st.extTask, semaphore |-> st.semaphore,
          extBase |-> base, extPhase |-> "returned"]
    ELSE LET got == TakeSlots(st, base + 1, BatchEnd(base, n))
         IN  [extTask |-> got.extTask, semaphore |-> got.semaphore,
              extBase |-> base, extPhase |-> "batch"]

\* finally { semaphore[semaphore.indexOf(benchmark)] = null }
FreeSlot(sl, t) == [i \in 1..concurrency |-> IF sl[i] = t THEN 0 ELSE sl[i]]

\* a batchPromise ends; when it was the last of its batch, Promise.all
\* resolves and the loop goes on with the next batch
ExtTaskEnds(t) ==
    LET st   == [extTask |-> [extTask EXCEPT ![t] = "done"],
                 semaphore |-> FreeSlot(semaphore, t)]
        last == BatchEnd(extBase, extN)
        nxt  == IF \A u \in (extBase + 1)..last : st.extTask[u] = "done"
                THEN StartBatch(st, last, extN, extSig \in aborted)
                ELSE [extTask |-> st.extTask, semaphore |-> st.semaphore,
                      extBase |-> extBase, extPhase |-> "batch"]
    IN  /\ extTask' = nxt.extTask /\ semaphore' = nxt.semaphore
        /\ extBase' = nxt.extBase /\ extPhase' = nxt.extPhase
        \* finally { currentAbortController = null }
        /\ extCtl' = IF nxt.extPhase = "returned" THEN 0 ELSE extCtl

\* goAllocations.runAllBenchmarks: abort what runs, new controller, then the
\* collection of the benchmarks begins (await provider.getChildren())
RunAllCommand ==
    /\ variant \in ExtVariants /\ extPhase = "idle"
    /\ aborted' = IF extCtl # 0 THEN aborted \cup {extCtl} ELSE aborted
    /\ extMade' = extMade + 1
    /\ extCtl' = extMade + 1 /\ extSig' = extMade + 1
    /\ extPhase' = "collect"
    /\ UNCHANGED <<outsideBatch, variant, ctl, nBench, batch, batchSig, task, sema, run,
                   extN, extSingle, extBase, extTask, semaphore>>

\* the collection loop ends: at an abort check, or with allBenchmarks complete
\* and processBenchmarks() started
CollectEnds ==
    /\ variant \in ExtVariants /\ extPhase = "collect"
    /\ LET nxt == IF extSig \in aborted
                  THEN [extTask |-> extTask, semaphore |-> semaphore,
                        extBase |-> 0, extPhase |-> "returned"]
                  ELSE StartBatch([extTask |-> extTask, semaphore |-> semaphore],
                                  0, extN, FALSE)
       IN  /\ extTask' = nxt.extTask /\ semaphore' = nxt.semaphore
           /\ extBase' = nxt.extBase /\ extPhase' = nxt.extPhase
           /\ extCtl' = IF nxt.extPhase = "returned" THEN 0 ELSE extCtl
    /\ UNCHANGED <<outsideBatch, batchVars, extMade, extSig, extN, extSingle>>

\* reveal resolved: provider.getChildren(benchmark, abortSignal) is called; with
\* an aborted signal getAllocationData returns its error item at once
ExtRevealResolves(t) ==
    /\ variant \in ExtVariants /\ extTask[t] = "reveal"
    /\ IF extSig \in aborted
       THEN ExtTaskEnds(t)
       ELSE /\ extTask' = [extTask EXCEPT ![t] = "run"]
            /\ UNCHANGED <<extCtl, extBase, extPhase, semaphore>>
    /\ UNCHANGED <<outsideBatch, batchVars, extMade, extSig, extN, extSingle>>

ExtRevealRejects(t) ==
    /\ variant \in ExtVariants /\ extTask[t] = "reveal"
    /\ ExtTaskEnds(t)
    /\ UNCHANGED <<outsideBatch, batchVars, extMade, extSig, extN, extSingle>>

\* (variant of PollSlot that goes on waiting whatever it finds)
PollSlotNever(st, t) == [extTask |-> st.extTask, semaphore |-> st.semaphore]

\* the timer of a waiting batchPromise fired and no abort was seen: the
\* slot array is scanned again
PollSlot(st, t) == TakeSlot(st, t)

\* setTimeout(checkSlot, 10) / setTimeout(resolve, 100) fired: with the
\* signal aborted the promise ends without a slot (return, or the throw of
\* runBenchmark caught; indexOf finds nothing to free), else it scans again
ExtPollTimer(t) ==
    /\ variant \in ExtVariants /\ extTask[t] = "polling"
    /\ IF extSig \in aborted
       THEN ExtTaskEnds(t)
       ELSE LET got == PollSlot([extTask |-> extTask, semaphore |-> semaphore], t)
            IN  /\ extTask' = got.extTask /\ semaphore' = got.semaphore
                /\ UNCHANGED <<extCtl, extBase, extPhase>>
    /\ UNCHANGED <<outsideBatch, batchVars, extMade, extSig, extN, extSingle>>

\* provider.getChildren(benchmark, abortSignal) returned
ExtRunReturns(t) ==
    /\ variant \in ExtVariants /\ extTask[t] = "run"
    /\ ExtTaskEnds(t)
    /\ UNCHANGED <<outsideBatch, batchVars, extMade, extSig, extN, extSingle>>

\* goAllocations.runSingleBenchmark: abort what runs, new controller, then
\* await treeView.reveal(benchmarkItem, {expand: true})
RunSingleCommand ==
    /\ variant \in ExtVariants /\ extSingle.pc = "idle"
    /\ aborted' = IF extCtl # 0 THEN aborted \cup {extCtl} ELSE aborted
    /\ extMade' = extMade + 1
    /\ extCtl' = extMade + 1
    /\ extSingle' = [pc |-> "reveal", sig |-> extMade + 1]
    /\ UNCHANGED <<outsideBatch, variant, ctl, nBench, batch, batchSig, task, sema, run,
                   extSig, extPhase, extN, extBase, extTask, semaphore>>

\* its reveal resolved or rejected: finally { currentAbortController = null }
SingleEnds ==
    /\ variant \in ExtVariants /\ extSingle.pc = "reveal"
    /\ extSingle' = [extSingle EXCEPT !.pc = "done"]
    /\ extCtl' = 0
    /\ UNCHANGED <<outsideBatch, batchVars, extMade, extSig, extPhase, extN, extBase,
                   extTask, semaphore>>

\* goAllocations.stopAllBenchmarks
StopCommand ==
    /\ variant \in ExtVariants /\ extCtl # 0
    /\ aborted' = aborted \cup {extCtl}
    /\ UNCHANGED <<outsideBatch, variant, ctl, nBench, batch, batchSig, task, sema, run, extVars>>

-----------------------------------------------------------------------------
(***************************************************************************)
(* Discovery of provider.ts: Provider.refresh, the root getChildren(),     *)
(* loadPackages and loadPackagesFromWorkspace.                             *)
(* A pass is one activation of loadPackages():                             *)
(*   pc     "none" | "listm" (awaiting `go list -m`) | "listpk" (awaiting  *)
(*          `go list ./...`) | "listbench" (awaiting `go test -list`) |    *)
(*          "done"                                                         *)
(*   sig    the signal loadPackages captured                               *)
(*   rsig   the signal loadPackagesFromWorkspace captured for the root     *)
(*   root, nPk, pkg   the folder, its package lines, the line in work     *)
(*   modGen the array its `module` object was found in or pushed to        *)
(*   threw  history: loadPackages() rejected                               *)
(*   skipped  history: the package of the folder whose probe failed last   *)
(*          with the signal intact (0: none)                               *)
(* The operators below work on a record of the Provider's fields, so that  *)
(* everything up to the next await happens in one step.                    *)
(***************************************************************************)
Roots   == 1..MaxRoots
PassIds == 1..MaxPass
ExecPcs == {"listm", "listpk", "listbench"}

IdlePass ==
    [pc |-> "none", sig |-> 0, rsig |-> 0, root |-> 0, nPk |-> 0, pkg |-> 0,
     modGen |-> 0, threw |-> FALSE, skipped |-> 0]

\* how an awaited go command can end: rejected, or resolved with n lines
\* (for `go list -m`: n = 0 is no valid module name)
ExecResults ==
    {[ok |-> FALSE, n |-> 0]} \cup {[ok |-> TRUE, n |-> k] : k \in 0..MaxPkgs}

ProviderState ==
    [modules |-> modules, packagesLoaded |-> packagesLoaded,
     discoveryInProgress |-> discoveryInProgress, pass |-> pass,
     ab |-> abortedSignals, ctl |-> abortController, gen |-> cacheGen,
     fired |-> <<>>]

\* this._onDidChangeTreeData.fire(): the listeners are called on the spot;
\* the note keeps what a listener can read then (the cache, the flag) and
\* where pass p stands (for refresh(), p = 0)
Fire(d, kind, p) ==
    [d EXCEPT !.fired = Append(@,
        [kind |-> kind, by |-> p, modules |-> d.modules,
         packagesLoaded |-> d.packagesLoaded,
         at |-> IF p = 0 THEN <<"none", 0, 0>>
                ELSE <<d.pass[p].pc, d.pass[p].root, d.pass[p].pkg>>])]

\* the finally block of loadPackages; when it threw, the .catch handler of
\* getChildren runs next and clears discoveryInProgress once more
loadPackagesFinally(d, p, t) ==
    Fire([d EXCEPT !.packagesLoaded = TRUE, !.discoveryInProgress = FALSE,
                   !.pass[p] = [IdlePass EXCEPT !.pc = "done", !.sig = d.pass[p].sig,
                                                !.threw = t]],
         "final", p)

RECURSIVE loadPackagesLoop(_, _)
RECURSIVE loadPackagesCatch(_, _)
RECURSIVE loadPackagesFromWorkspace(_, _, _)
RECURSIVE execAsync(_, _, _)
RECURSIVE execRejected(_, _, _)
RECURSIVE packageLoop(_, _, _)

\* loadPackages: the next iteration of `for (const workspaceFolder of ...)`
loadPackagesLoop(d, p) ==
    LET r == d.pass[p].root + 1
    IN  IF r > nRoots THEN loadPackagesFinally(d, p, FALSE)
        ELSE IF d.pass[p].sig \in d.ab THEN loadPackagesFinally(d, p, TRUE)
        ELSE loadPackagesFromWorkspace(d, p, r)

\* loadPackagesFromWorkspace threw: the catch around the call in loadPackages
loadPackagesCatch(d, p) ==
    IF d.pass[p].sig \in d.ab
    THEN loadPackagesFinally(d, p, TRUE)
    ELSE loadPackagesLoop(d, p)

\* loadPackagesFromWorkspace(rootPath) up to its first await
loadPackagesFromWorkspace(d, p, r) ==
    LET d1 == [d EXCEPT !.pass[p].root = r, !.pass[p].rsig = d.ctl,
                        !.pass[p].nPk = 0, !.pass[p].pkg = 0,
                        !.pass[p].skipped = 0]
    IN  IF d.ctl \in d.ab
        THEN loadPackagesCatch(d1, p)
        ELSE execAsync(d1, p, "listm")

\* execAsync(cmd, {signal}): with a signal that is already aborted the
\* command is rejected as soon as it is spawned
execAsync(d, p, what) ==
    IF d.pass[p].rsig \in d.ab
    THEN execRejected([d EXCEPT !.pass[p].pc = what], p, what)
    ELSE [d EXCEPT !.pass[p].pc = what]

\* (variant of execRejected that rethrows the failure of a package probe)
execRejectedRethrow(d, p, what) == loadPackagesCatch(d, p)

\* the awaited command rejected: the catch blocks of loadPackagesFromWorkspace
execRejected(d, p, what) ==
    IF what = "listbench" /\ d.pass[p].rsig \notin d.ab
    THEN packageLoop([d EXCEPT !.pass[p].skipped = d.pass[p].pkg],
                     p, d.pass[p].pkg + 1)         \* console.warn, next line
    ELSE loadPackagesCatch(d, p)                   \* rethrown to loadPackages

\* `for (let line of packageLines)` from line k on
packageLoop(d, p, k) ==
    IF k > d.pass[p].nPk THEN loadPackagesLoop(d, p)
    ELSE IF d.pass[p].rsig \in d.ab THEN loadPackagesCatch(d, p)
    ELSE execAsync([d EXCEPT !.pass[p].pkg = k], p, "listbench")

\* The items of the tree.  A module has the name of the first folder that
\* resolves to it; the package in directory k of module m has the path
\* <<m, k>>; a package with n benchmarks has the benchmark names 1..n.
InstructionItem == [contextValue |-> "information"]
ModuleItem(r) == [contextValue |-> "module", modulePath |-> r]
PackageItem(r, k, parent) ==
    [contextValue |-> "package", filePath |-> <<r, k>>, parent |-> parent]
BenchmarkItem(r, k, b, parent) ==
    [contextValue |-> "benchmarkFunction", filePath |-> <<r, k>>, label |-> b,
     parent |-> parent]
NotInCache == <<[contextValue |-> "error"]>>   \* getChildren threw

\* the index of the first element of the sequence s that satisfies T, or 0
FindIndex(s, T(_)) ==
    IF \E i \in 1..Len(s) : T(s[i])
    THEN CHOOSE i \in 1..Len(s) : T(s[i]) /\ \A j \in 1..(i - 1) : ~T(s[j])
    ELSE 0

\* (variant of RootItems that shows the modules only when the load is over)
RootItemsWhenLoaded(d) ==
    <<InstructionItem>> \o
        (IF d.packagesLoaded
         THEN [i \in 1..Len(d.modules) |-> ModuleItem(d.modules[i].name)]
         ELSE <<>>)

\* what getChildren() returns for the root
RootItems(d) ==
    <<InstructionItem>> \o [i \in 1..Len(d.modules) |-> ModuleItem(d.modules[i].name)]

\* ModuleItem.getChildren(modules)
ModuleItemGetChildren(el, ms) ==
    LET i == FindIndex(ms, LAMBDA m : m.name = el.modulePath)
    IN  IF i = 0 THEN NotInCache
        ELSE [j \in 1..Len(ms[i].packages) |->
                 PackageItem(el.modulePath, ms[i].packages[j].path, el)]

\* PackageItem.getChildren(modules)
PackageItemGetChildren(el, ms) ==
    LET At1(m) == \E j \in 1..Len(m.packages) :
                     <<m.name, m.packages[j].path>> = el.filePath
        i == FindIndex(ms, At1)
    IN  IF i = 0 THEN NotInCache
        ELSE LET j == FindIndex(ms[i].packages,
                                LAMBDA q : <<ms[i].name, q.path>> = el.filePath)
             IN  [b \in 1..ms[i].packages[j].benchmarks |->
                     BenchmarkItem(el.filePath[1], el.filePath[2], b, el)]

\* (variant of getParent that gives a package item no parent)
getParentPackagesAtRoot(element) ==
    IF element.contextValue = "benchmarkFunction" THEN <<element.parent>>
    ELSE <<>>

\* Provider.getParent(element): <<>> is undefined
getParent(element) ==
    IF element.contextValue = "module" THEN <<>>
    ELSE IF element.contextValue \in {"package", "benchmarkFunction"}
    THEN <<element.parent>>
    ELSE <<>>

\* moduleName.trim() of `go list -m` in folder r: a folder is a module of its
\* own unless it lies inside folder 1
ModName(r) == IF nested THEN 1 ELSE r

\* the directory on line k of `go list -f "{{.Name}} {{.Dir}}" ./...` in
\* folder r: the folder itself first, then its sub-directories; the nested
\* folder 2 is directory 2 of folder 1
Dir(r, k) == IF nested /\ r = 2 THEN k + 1 ELSE k

\* this.modules.find(m => m.name === moduleName) or push of a new module
FindOrPush(ms, r, p) ==
    IF \E i \in 1..Len(ms) : ms[i].name = r THEN ms
    ELSE Append(ms, [name |-> r, by |-> p, packages |-> <<>>])

\* (variant of PushPackage that puts the new package in front)
PushPackageFront(d, p, r, k, n) ==
    IF d.pass[p].modGen # d.gen THEN d.modules
    ELSE [i \in 1..Len(d.modules) |->
             IF d.modules[i].name = ModName(r)
             THEN [d.modules[i] EXCEPT
                      !.packages = <<[path |-> Dir(r, k), benchmarks |-> n]>> \o @]
             ELSE d.modules[i]]

\* module.packages.push(pkg): seen in the cache when the module object
\* belongs to the array this.modules still refers to
PushPackage(d, p, r, k, n) ==
    IF d.pass[p].modGen # d.gen THEN d.modules
    ELSE [i \in 1..Len(d.modules) |->
             IF d.modules[i].name = ModName(r)
             THEN [d.modules[i] EXCEPT
                      !.packages = Append(@, [path |-> Dir(r, k), benchmarks |-> n])]
             ELSE d.modules[i]]

\* (variant of HasBenchmarks that lets every probed package through)
HasBenchmarksAlways(n) == TRUE

\* `if (benchmarks.length > 0)`, for a probe that listed n benchmarks
HasBenchmarks(n) == n > 0

\* (variant of addPackage that notifies before the package is in the cache)
addPackageFireFirst(d, p, n) ==
    [Fire(d, "package", p) EXCEPT
        !.modules = PushPackage(d, p, d.pass[p].root, d.pass[p].pkg, n)]

\* moduleCache.addPackage(packageCache); this._onDidChangeTreeData.fire()
addPackage(d, p, n) ==
    Fire([d EXCEPT !.modules = PushPackage(d, p, d.pass[p].root, d.pass[p].pkg, n)],
         "package", p)

\* the continuation of the awaited command of pass p
execSettled(d, p, res) ==
    LET ps == d.pass[p]
    IN  IF ~res.ok THEN execRejected(d, p, ps.pc)
        ELSE IF ps.pc = "listm"
        THEN IF res.n = 0 THEN loadPackagesLoop(d, p)
             ELSE execAsync([d EXCEPT !.modules = FindOrPush(@, ModName(ps.root), p),
                                      !.pass[p].modGen = d.gen],
                            p, "listpk")
        ELSE IF ps.pc = "listpk"
        THEN packageLoop([d EXCEPT !.pass[p].nPk = res.n], p, 1)
        ELSE IF ~HasBenchmarks(res.n) THEN packageLoop(d, p, ps.pkg + 1)
        ELSE IF ps.rsig \in d.ab THEN loadPackagesCatch(d, p)
        ELSE packageLoop(addPackage(d, p, res.n), p, ps.pkg + 1)

\* abort() of controller c: every command awaited under its signal is killed
\* and rejects, and its pass runs on to its next await. The passes in E are
\* those whose child had already emitted 'exit' and so dropped its abort
\* listener: their command still settles by itself, on 'close'
RECURSIVE abortCommands(_, _, _, _)
abortCommands(d, c, E, p) ==
    IF p > MaxPass THEN d
    ELSE IF d.pass[p].pc \in ExecPcs /\ d.pass[p].rsig = c /\ p \notin E
    THEN abortCommands(execRejected(d, p, d.pass[p].pc), c, E, p + 1)
    ELSE abortCommands(d, c, E, p + 1)

\* the passes that await a command under the signal of controller c
Awaiting(c) == {p \in PassIds : pass[p].pc \in ExecPcs /\ pass[p].rsig = c}

\* (variant of cancelAll that keeps the aborted controller)
cancelAllNoFresh(d, E) ==
    abortCommands([d EXCEPT !.ab = @ \cup {d.ctl}], d.ctl, E, 1)

\* cancelAll(): abort the current controller, allocate a new one
cancelAll(d, E) ==
    abortCommands([d EXCEPT !.ab = @ \cup {d.ctl}, !.ctl = @ + 1], d.ctl, E, 1)

SetProvider(d) ==
    /\ modules' = d.modules /\ packagesLoaded' = d.packagesLoaded
    /\ discoveryInProgress' = d.discoveryInProgress /\ pass' = d.pass
    /\ abortedSignals' = d.ab /\ abortController' = d.ctl /\ cacheGen' = d.gen

\* (variant of rootGetChildren that drops the cached modules when it starts
\* no pass)
rootGetChildrenResets(d, p) ==
    IF ~d.discoveryInProgress /\ ~d.packagesLoaded
    THEN loadPackagesLoop(
             [d EXCEPT !.discoveryInProgress = TRUE,
                       !.pass[p] = [IdlePass EXCEPT !.sig = d.ctl]],
             p)
    ELSE [d EXCEPT !.modules = <<>>]

\* getChildren(undefined), the provider after the call: loadPackages() is
\* started as pass p unless a pass is in progress or the packages are
\* loaded, and the items are built from the cache
rootGetChildren(d, p) ==
    IF ~d.discoveryInProgress /\ ~d.packagesLoaded
    THEN loadPackagesLoop(
             [d EXCEPT !.discoveryInProgress = TRUE,
                       !.pass[p] = [IdlePass EXCEPT !.sig = d.ctl]],
             p)
    ELSE d

\* getChildren() for the root: start loadPackages() unless a pass is in
\* progress or the packages are loaded
RootGetChildren ==
    /\ IF ~discoveryInProgress /\ ~packagesLoaded
       THEN /\ nPass < MaxPass
            /\ SetProvider(rootGetChildren(ProviderState, nPass + 1))
            /\ nPass' = nPass + 1
            /\ sinceRefresh' = IF sinceRefresh = "pending" THEN "started" ELSE sinceRefresh
            /\ newPass' = IF sinceRefresh = "pending" THEN nPass + 1 ELSE newPass
       ELSE /\ sinceRefresh' = IF sinceRefresh = "pending" THEN "skipped" ELSE sinceRefresh
            /\ SetProvider(rootGetChildren(ProviderState, nPass + 1))
            /\ UNCHANGED <<nPass, newPass>>
    /\ UNCHANGED <<outsideDisc, nRoots, nested>>

\* what `go test -list` can print for the package pass p probes: the files
\* do not change during discovery, so a directory that is probed again lists
\* the benchmarks it listed before
SameListing(p, res) ==
    (pass[p].pc = "listbench" /\ res.ok /\ res.n > 0) =>
        \A i \in 1..Len(modules) : \A j \in 1..Len(modules[i].packages) :
            (/\ modules[i].name = ModName(pass[p].root)
             /\ modules[i].packages[j].path = Dir(pass[p].root, pass[p].pkg)) =>
                modules[i].packages[j].benchmarks = res.n

\* the awaited command settles
ExecSettles(p, res) ==
    /\ pass[p].pc \in ExecPcs /\ SameListing(p, res)
    /\ SetProvider(execSettled(ProviderState, p, res))
    /\ UNCHANGED <<outsideDisc, nRoots, nested, nPass, sinceRefresh, newPass>>

\* refresh(): cancelAll(), then the cache and both flags are reset; the
\* continuations of the rejected commands run when refresh() has returned
refresh(d, E) ==
    abortCommands(Fire([d EXCEPT !.ab = @ \cup {d.ctl}, !.ctl = @ + 1, !.gen = @ + 1,
                                 !.modules = <<>>,
                                 !.packagesLoaded = FALSE,
                                 !.discoveryInProgress = FALSE],
                       "refresh", 0),
                  d.ctl, E, 1)

\* the refresh command
Refresh ==
    /\ abortController <= MaxRefresh
    /\ \E E \in SUBSET Awaiting(abortController) :
           SetProvider(refresh(ProviderState, E))
    /\ sinceRefresh' = "pending" /\ newPass' = 0
    /\ UNCHANGED <<outsideDisc, nRoots, nested, nPass>>

\* the stop command: provider.cancelAll()
StopDiscovery ==
    /\ abortController <= MaxRefresh
    /\ \E E \in SUBSET Awaiting(abortController) :
           SetProvider(cancelAll(ProviderState, E))
    /\ UNCHANGED <<outsideDisc, nRoots, nested, nPass, sinceRefresh, newPass>>

\* the discovery variables in a behaviour that does not exercise discovery
DiscIdle ==
    /\ nRoots = 0 /\ nested = FALSE
    /\ abortController = 1 /\ abortedSignals = {}
    /\ modules = <<>> /\ cacheGen = 0
    /\ packagesLoaded = FALSE /\ discoveryInProgress = FALSE
    /\ pass = [p \in PassIds |-> IdlePass] /\ nPass = 0
    /\ sinceRefresh = "none" /\ newPass = 0

\* the batch variables in a behaviour that does not exercise a batch
BatchIdle ==
    /\ variant = "none" /\ ctl = 1 /\ aborted = {}
    /\ nBench = 0 /\ batch = "idle" /\ batchSig = 0
    /\ task = NoTasks
    /\ sema = [free |-> SemaCapacity, waiting |-> <<>>]
    /\ run = [t \in Benchmarks |-> IdleRun]
    /\ extCtl = 0 /\ extMade = 0 /\ extSig = 0 /\ extPhase = "idle"
    /\ extN = 0 /\ extBase = 0 /\ extSingle = [pc |-> "idle", sig |-> 0]
    /\ extTask = [t \in ExtBenchmarks |-> "none"]
    /\ semaphore = [i \in 1..concurrency |-> 0]

-----------------------------------------------------------------------------
(***************************************************************************)
(* The profile parser. A string is a sequence of one-character strings.    *)
(***************************************************************************)
Space == {" ", "\t"}
Digit == {"0", "1", "2", "3", "4", "5", "6", "7", "8", "9"}

Max(S) == CHOOSE x \in S : \A y \in S : y <= x

\* F applied to the value of v (v is evaluated once)
With(v, F(_)) == CHOOSE r \in {F(x) : x \in {v}} : TRUE

\* the number of characters of the set C that s has in a row from position i
RECURSIVE Run(_, _, _)
Run(s, i, C) ==
    IF i > Len(s) THEN 0
    ELSE IF s[i] \notin C THEN 0
    ELSE 1 + Run(s, i + 1, C)

\* the same, backwards from position i
RECURSIVE RunBack(_, _, _)
RunBack(s, i, C) ==
    IF i < 1 THEN 0
    ELSE IF s[i] \notin C THEN 0
    ELSE 1 + RunBack(s, i - 1, C)

\* String.prototype.trim
trim(s) ==
    With(Run(s, 1, Space), LAMBDA a :
        IF a = Len(s) THEN <<>>
        ELSE SubSeq(s, a + 1, Len(s) - RunBack(s, Len(s), Space)))

\* s has the literal t at position i
At(s, i, t) == i >= 1 /\ i + Len(t) - 1 <= Len(s) /\ SubSeq(s, i, i + Len(t) - 1) = t

\* String.prototype.includes, String.prototype.startsWith
includes(s, t) == \E i \in 1..(Len(s) + 1) : At(s, i, t)
startsWith(s, t) == At(s, 1, t)

\* ROUTINE
sROUTINE ==
    <<"R","O","U","T","I","N","E">>
\* Total:
sTotal ==
    <<"T","o","t","a","l",":">>
\* /vendor/
sVendor ==
    <<"/","v","e","n","d","o","r","/">>
\* 0B
s0B ==
    <<"0","B">>

NoMatch == [ok |-> FALSE]

\* `\s+in\s+(.+)$` at position i: where group 2 begins, 0 when it does not
\* match (the second `\s+` gives a character back when nothing follows it)
InTail(s, i) ==
    With(Run(s, i, Space), LAMBDA k2 :
        IF k2 = 0 \/ ~At(s, i + k2, <<"i", "n">>) THEN 0
        ELSE With(Run(s, i + k2 + 2, Space), LAMBDA k3 :
                 IF k3 = 0 THEN 0
                 ELSE IF i + k2 + 2 + k3 <= Len(s) THEN i + k2 + 2 + k3
                 ELSE IF k3 >= 2 THEN Len(s)
                 ELSE 0))

\* group 1 begins at the last p of lo..hi and ends at the first q of Q from
\* p on; group 2 begins where tail(q) says
RoutineGroups(s, lo, hi, Q, tail(_)) ==
    With({p \in lo..hi : \E q \in Q : q >= p}, LAMBDA Ps :
        IF Ps = {} THEN NoMatch
        ELSE With(Max(Ps), LAMBDA p :
             With(Min({q \in Q : q >= p}), LAMBDA q :
                 [ok |-> TRUE, fn |-> SubSeq(s, p, q),
                  file |-> SubSeq(s, tail(q), Len(s))])))

\* routineRegex = /^ROUTINE\s*=+\s*(.+?)\s+in\s+(.+)$/
\* `=+` and the `\s*` after it are greedy and give back one character at a
\* time, so group 1 begins as late as a match allows; it is lazy, so it ends
\* as early as a match allows
routineRegex(s) ==
    IF ~At(s, 1, sROUTINE) THEN NoMatch
    ELSE With(8 + Run(s, 8, Space), LAMBDA a :
         With(Run(s, a, {"="}), LAMBDA e :
         With(Run(s, a + e, Space), LAMBDA k1 :
             RoutineGroups(s, a + 1, a + e + k1,
                           {q \in 1..Len(s) : InTail(s, q + 1) # 0},
                           LAMBDA q : InTail(s, q + 1)))))

\* /^ROUTINE =+ (.+?) in (.+)$/ of goAllocationsProvider.ts
routineRegexStrict(s) ==
    IF ~At(s, 1, sROUTINE \o <<" ">>) THEN NoMatch
    ELSE With(Run(s, 9, {"="}), LAMBDA e :
             IF e = 0 \/ ~At(s, 9 + e, <<" ">>) THEN NoMatch
             ELSE RoutineGroups(s, 10 + e, 10 + e,
                                {q \in 1..Len(s) : At(s, q + 1, <<" ", "i", "n", " ">>)
                                                   /\ q + 5 <= Len(s)},
                                LAMBDA q : q + 5))

\* `\d+(?:\.\d+)?[KMGT]?B` at position i: where it ends, 0 when it does not match
SizeEnd(s, i) ==
    With(Run(s, i, Digit), LAMBDA d :
        IF d = 0 THEN 0
        ELSE With(IF At(s, i + d, <<".">>) THEN Run(s, i + d + 1, Digit) ELSE 0, LAMBDA f :
             With(IF f >= 1 THEN i + d + 1 + f ELSE i + d, LAMBDA j :
             With(IF j <= Len(s) /\ s[j] \in {"K", "M", "G", "T"} THEN j + 1 ELSE j, LAMBDA b :
                 IF At(s, b, <<"B">>) THEN b ELSE 0))))

\* `\s*(\d+):\s*(.+)$` at position i (the last `\s*` gives a character back
\* when nothing follows it)
NumberTail(s, i) ==
    With(i + Run(s, i, Space), LAMBDA j :
    With(Run(s, j, Digit), LAMBDA d :
        IF d = 0 \/ ~At(s, j + d, <<":">>) THEN NoMatch
        ELSE With(Run(s, j + d + 1, Space), LAMBDA w :
                 IF j + d + 1 + w <= Len(s)
                 THEN [ok |-> TRUE, num |-> SubSeq(s, j, j + d - 1),
                       text |-> SubSeq(s, j + d + 1 + w, Len(s))]
                 ELSE IF w >= 1
                 THEN [ok |-> TRUE, num |-> SubSeq(s, j, j + d - 1),
                       text |-> SubSeq(s, Len(s), Len(s))]
                 ELSE NoMatch)))

\* the groups of lineRegex when the first optional group ends at e1 and the
\* second at e2 (0: the group cannot match there)
lineRegexAt(s, i0, e1, i1, e2) ==
    With(IF e2 > 0 THEN NumberTail(s, e2 + 1) ELSE NoMatch, LAMBDA both :
        IF both.ok
        THEN [ok |-> TRUE, g1 |-> SubSeq(s, i0, e1), g2 |-> SubSeq(s, i1, e2),
              num |-> both.num, text |-> both.text]
        ELSE With(IF e1 > 0 THEN NumberTail(s, e1 + 1) ELSE NumberTail(s, i0), LAMBDA rest :
                 IF rest.ok
                 THEN [ok |-> TRUE, g1 |-> SubSeq(s, i0, e1), g2 |-> <<>>,
                       num |-> rest.num, text |-> rest.text]
                 ELSE NoMatch))

\* lineRegex = /^\s*(SIZE)?\s*(SIZE)?\s*(\d+):\s*(.+)$/ : with both groups,
\* else with the first alone, else with none (an unmatched group is <<>>)
lineRegex(s) ==
    With(1 + Run(s, 1, Space), LAMBDA i0 :
    With(SizeEnd(s, i0), LAMBDA e1 :
    With(e1 + 1 + Run(s, e1 + 1, Space), LAMBDA i1 :
    With(IF e1 > 0 THEN SizeEnd(s, i1) ELSE 0, LAMBDA e2 :
        lineRegexAt(s, i0, e1, i1, e2)))))

DigitValue(c) == CHOOSE v \in 0..9 : <<"0", "1", "2", "3", "4", "5", "6", "7", "8", "9">>[v + 1] = c

\* parseInt of the first n characters of a string of digits
RECURSIVE parseIntTo(_, _)
parseIntTo(ds, n) ==
    IF n = 0 THEN 0 ELSE 10 * parseIntTo(ds, n - 1) + DigitValue(ds[n])

parseInt(ds) == parseIntTo(ds, Len(ds))

\* (variant of shortFunctionName that keeps the full name)
fullFunctionName(fullName) == fullName

\* shortFunctionName: after the last '/', then after the first '.'
shortFunctionName(fullName) ==
    With({i \in 1..Len(fullName) : fullName[i] = "/"}, LAMBDA S :
    With(IF S = {} THEN fullName ELSE SubSeq(fullName, Max(S) + 1, Len(fullName)),
         LAMBDA afterSlash :
    With({i \in 1..Len(afterSlash) : afterSlash[i] = "."}, LAMBDA D :
        IF D = {} THEN afterSlash
        ELSE SubSeq(afterSlash, Min(D) + 1, Len(afterSlash)))))

\* path.dirname of a path without trailing slashes
dirname(pth) ==
    With({i \in 1..Len(pth) : pth[i] = "/"}, LAMBDA S :
        IF S = {} THEN <<".">>
        ELSE IF Max(S) = 1 THEN <<"/">>
        ELSE SubSeq(pth, 1, Max(S) - 1))

\* Provider.isUserCode of goAllocationsProvider.ts
isUserCode(filePath, mod, root) ==
    IF mod # <<>> /\ startsWith(filePath, dirname(mod)) THEN TRUE
    ELSE IF root # <<>> /\ startsWith(filePath, root) THEN FALSE
    ELSE IF includes(filePath, sVendor) THEN FALSE
    ELSE TRUE

\* (variant of EndsRoutine under which nothing ends a routine)
EndsRoutineNever(t) == FALSE

\* `if (trimmedLine === '' || trimmedLine.includes('ROUTINE')) inFunction = false`
EndsRoutine(t) == t = <<>> \/ includes(t, sROUTINE)

\* the allocation item of a line that matched lineRegex with groups lm, or
\* <<>> when the line yields none
LineItem(st, lm, idx, which, mod, root) ==
    With(IF lm.g1 # <<>> THEN lm.g1 ELSE s0B, LAMBDA flatBytes :
    With(IF lm.g2 # <<>> THEN lm.g2 ELSE s0B, LAMBDA cumulativeBytes :
    With(parseInt(lm.num), LAMBDA lineNumber :
        IF /\ lineNumber > 0
           /\ (flatBytes # s0B \/ cumulativeBytes # s0B)
           /\ (which = "filter" => isUserCode(st.currentFile, mod, root))
        THEN <<[label |-> trim(lm.text), file |-> st.currentFile,
                line |-> lineNumber, flat |-> flatBytes, cum |-> cumulativeBytes,
                fn |-> shortFunctionName(st.currentFunction), at |-> idx]>>
        ELSE <<>>)))

\* the body of the 'line' handler (of the loop over the lines) for the line
\* with index idx; st holds items, currentFunction, currentFile, inFunction;
\* the field `at` of an item records the line it came from
ParseLine(st, line, idx, which, mod, root) ==
    With(trim(line), LAMBDA t :
    With(IF which = "stream" THEN routineRegex(t) ELSE routineRegexStrict(t), LAMBDA fm :
        IF fm.ok
        THEN [st EXCEPT !.currentFunction = fm.fn, !.currentFile = fm.file,
                        !.inFunction = TRUE]
        ELSE With(IF /\ st.inFunction /\ t # <<>>
                     /\ ~includes(t, sTotal) /\ ~includes(t, sROUTINE)
                  THEN lineRegex(t) ELSE NoMatch, LAMBDA lm :
                 [st EXCEPT !.items = IF lm.ok
                                      THEN @ \o LineItem(st, lm, idx, which, mod, root)
                                      ELSE @,
                            !.inFunction = IF EndsRoutine(t) THEN FALSE ELSE @])))

\* the lines listings are drawn from
\* ROUTINE ==== p.f in /m/f.go
lRoutineF ==
    <<"R","O","U","T","I","N","E"," ","=","=","=","="," ","p",".","f"," ",
      "i","n"," ","/","m","/","f",".","g","o">>
\* ROUTINE ==== v.g in /m/vendor/v/g.go
lRoutineVendor ==
    <<"R","O","U","T","I","N","E"," ","=","=","=","="," ","v",".","g"," ",
      "i","n"," ","/","m","/","v","e","n","d","o","r","/","v","/","g",".",
      "g","o">>
\* (the empty line)
lBlank ==
    <<>>
\* 1MB 2MB 5: x()
lCost ==
    <<"1","M","B"," ","2","M","B"," ","5",":"," ","x","(",")">>
\*    . 2KB 7: y()
lCumOnly ==
    <<" "," "," ","."," ","2","K","B"," ","7",":"," ","y","(",")">>
\* 1B 1B 8: p("Total:")
lTotalText ==
    <<"1","B"," ","1","B"," ","8",":"," ","p","(","\"","T","o","t","a","l",
      ":","\"",")">>
\* 1B 1B 9: // ROUTINE
lRoutineText ==
    <<"1","B"," ","1","B"," ","9",":"," ","/","/"," ","R","O","U","T","I",
      "N","E">>
\* 1B 1B 0: z
lLineZero ==
    <<"1","B"," ","1","B"," ","0",":"," ","z">>
\* 3KB 4: w
lLoneSize ==
    <<"3","K","B"," ","4",":"," ","w">>

LinePool ==
    {lRoutineF, lRoutineVendor, lBlank, lCost, lCumOnly,
     lTotalText, lRoutineText, lLineZero, lLoneSize}

\* the two-routine sample listing
\* ROUTINE ==== pkg.BenchmarkX in /a/b_test.go
fxRoutineX ==
    <<"R","O","U","T","I","N","E"," ","=","=","=","="," ","p","k","g",".",
      "B","e","n","c","h","m","a","r","k","X"," ","i","n"," ","/","a","/",
      "b","_","t","e","s","t",".","g","o">>
\*      .    3.77GB     13: for i := 0; i < b.N; i++ {
fxLine13 ==
    <<" "," "," "," "," ","."," "," "," "," ","3",".","7","7","G","B"," ",
      " "," "," "," ","1","3",":"," ","f","o","r"," ","i"," ",":","="," ",
      "0",";"," ","i"," ","<"," ","b",".","N",";"," ","i","+","+"," ","{">>
\*      .    3.77GB     14:   alloc()
fxLine14 ==
    <<" "," "," "," "," ","."," "," "," "," ","3",".","7","7","G","B"," ",
      " "," "," "," ","1","4",":"," "," "," ","a","l","l","o","c","(",")">>
\* ROUTINE ==== pkg.alloc in /a/b_test.go
fxRoutineAlloc ==
    <<"R","O","U","T","I","N","E"," ","=","=","=","="," ","p","k","g",".",
      "a","l","l","o","c"," ","i","n"," ","/","a","/","b","_","t","e","s",
      "t",".","g","o">>
\* 3.77GB    3.77GB      9: func alloc() {
fxLine9 ==
    <<"3",".","7","7","G","B"," "," "," "," ","3",".","7","7","G","B"," ",
      " "," "," "," "," ","9",":"," ","f","u","n","c"," ","a","l","l","o",
      "c","(",")"," ","{">>
\* 3.77GB    3.77GB     10:   s := build()
fxLine10 ==
    <<"3",".","7","7","G","B"," "," "," "," ","3",".","7","7","G","B"," ",
      " "," "," "," ","1","0",":"," "," "," ","s"," ",":","="," ","b","u",
      "i","l","d","(",")">>

Fixture == <<fxRoutineX, fxLine13, fxLine14, fxRoutineAlloc, fxLine9, fxLine10>>

Listings == UNION {[1..n -> LinePool] : n \in 0..MaxLines} \cup {Fixture}

\* /m/go.mod
sGoModPath ==
    <<"/","m","/","g","o",".","m","o","d">>
\* /go
sGoRootPath ==
    <<"/","g","o">>

ParserState ==
    [items |-> items, currentFunction |-> currentFunction,
     currentFile |-> currentFile, inFunction |-> inFunction]

HandleLine ==
    \E st \in {ParseLine(ParserState, listing[pos + 1], pos + 1, parser, goMod, goRoot)} :
        /\ items' = st.items /\ currentFunction' = st.currentFunction
        /\ currentFile' = st.currentFile /\ inFunction' = st.inFunction
        /\ pos' = pos + 1

\* new InformationItem(label, iconType), as the parser returns it
InformationItem(iconType) == [contextValue |-> "information", iconType |-> iconType]

\* `if (results.length === 0) results.push(noAllocationsItem); return results`
ParseResult(its) ==
    IF its = <<>> THEN <<InformationItem(NoAllocationsItem)>> ELSE its

\* rl.on('line', ...) of BenchmarkItem.parseMemoryProfile
OnLine ==
    /\ parser = "stream" /\ results = <<>> /\ pos < Len(listing)
    /\ HandleLine
    /\ UNCHANGED <<outsideParse, parser, goMod, goRoot, listing, results,
                   stderr, code, events>>

Range(f) == {f[i] : i \in DOMAIN f}

\* no matches found for regexp
sNoMatches ==
    <<"n","o"," ","m","a","t","c","h","e","s"," ","f","o","u","n","d"," ",
      "f","o","r"," ","r","e","g","e","x","p">>
\* pprof: no matches found for regexp: m
eNoMatches ==
    <<"p","p","r","o","f",":"," ">> \o sNoMatches \o <<":"," ","m">>
\* boom
eOther == <<"b","o","o","m">>
\* white space only
eBlank == <<" "," ">>
StderrPool == {eNoMatches, eOther, eBlank}
ExitCodes == {0, 1}

\* the promise of parseMemoryProfile settles once: a resolve or reject that
\* comes after the first is ignored; `res` is what this event would return
\* (<<>>: the event leaves the promise pending)
SettleOnce(res) == IF results # <<>> THEN results ELSE res

\* the stream of the child's standard output is over, and no event of the
\* child has closed the parse to further events
StreamOver == parser = "stream" /\ pos = Len(listing)

\* child.stderr.on('data', ...): stderr += data.toString()
StderrData(data) ==
    /\ StreamOver /\ stderr = <<>> /\ "child" \notin Range(events)
    /\ stderr' = stderr \o data
    /\ UNCHANGED <<outsideParse, parser, goMod, goRoot, listing, pos, items,
                   currentFunction, currentFile, inFunction, results, code, events>>

\* rl.on('close', ...): resolve(items); when this settles the promise,
\* parseMemoryProfile adds the 'No allocations found' item to an empty list
\* and returns
OnClose ==
    /\ StreamOver /\ "rl" \notin Range(events)
    /\ results' = SettleOnce(ParseResult(items))
    /\ events' = Append(events, "rl")
    /\ UNCHANGED <<outsideParse, parser, goMod, goRoot, listing, pos, items,
                   currentFunction, currentFile, inFunction, stderr, code>>

\* (variant of ChildCloseResult without the test for the no-match diagnostic)
ChildCloseNoDiagnostic(c) ==
    IF c # 0 /\ trim(stderr) # <<>> THEN <<InformationItem(ErrorItem)>>
    ELSE <<>>

\* what child.on('close', (code) => ...) does to a pending promise
ChildCloseResult(c) ==
    IF includes(stderr, sNoMatches) THEN ParseResult(<<InformationItem(NoAllocationsItem)>>)
    ELSE IF c # 0 /\ trim(stderr) # <<>> THEN <<InformationItem(ErrorItem)>>
    ELSE <<>>

\* child.on('close', (code) => ...)
ChildClose(c) ==
    /\ StreamOver /\ "child" \notin Range(events)
    /\ results' = SettleOnce(ChildCloseResult(c))
    /\ code' = c
    /\ events' = Append(events, "child")
    /\ UNCHANGED <<outsideParse, parser, goMod, goRoot, listing, pos, items,
                   currentFunction, currentFile, inFunction, stderr>>

\* child.on('error', (error) => reject(error)): the spawn failed, or the
\* signal was aborted; the catch block returns one error item
ChildError ==
    /\ StreamOver /\ "error" \notin Range(events) /\ "child" \notin Range(events)
    /\ results' = SettleOnce(<<InformationItem(ErrorItem)>>)
    /\ events' = Append(events, "error")
    /\ UNCHANGED <<outsideParse, parser, goMod, goRoot, listing, pos, items,
                   currentFunction, currentFile, inFunction, stderr, code>>

\* one iteration of `for (const line of lines)` of Provider.parseMemoryProfile
\* of goAllocationsProvider.ts
LoopLine ==
    /\ parser = "filter" /\ results = <<>> /\ pos < Len(listing)
    /\ HandleLine
    /\ UNCHANGED <<outsideParse, parser, goMod, goRoot, listing, results,
                   stderr, code, events>>

\* the loop is over: the empty case, and the return
LoopEnds ==
    /\ parser = "filter" /\ results = <<>> /\ pos = Len(listing)
    /\ results' = ParseResult(items)
    /\ UNCHANGED <<outsideParse, parser, goMod, goRoot, listing, pos, items,
                   currentFunction, currentFile, inFunction, stderr, code, events>>

\* the parser variables in a behaviour that does not exercise a parser
ParseIdle ==
    /\ parser = "none" /\ goMod = <<>> /\ goRoot = <<>>
    /\ listing = <<>> /\ pos = 0 /\ items = <<>>
    /\ currentFunction = <<>> /\ currentFile = <<>> /\ inFunction = FALSE
    /\ results = <<>>
    /\ stderr = <<>> /\ code = -1 /\ events = <<>>

-----------------------------------------------------------------------------
(***************************************************************************)
(* TreeDataProvider of treedata.ts: discovery from the workspace symbols   *)
(* (loadModules, loadModulesInWorkspace), refresh, cancelAll and           *)
(* findBenchmark.  A pass is one activation of loadModules():              *)
(*   pc     "none" | "symbols" (awaiting the workspace symbol search) |    *)
(*          "listm" (awaiting `go list -m`, started with the signal) |     *)
(*          "pkgname" (awaiting the `go list` of getPackageNameFromPath,   *)
(*          started without a signal) | "done"                             *)
(*   sig, rsig   the signals loadModules and loadModulesInWorkspace hold   *)
(*   root, sym   the folder and the symbol in work                         *)
(*   found  the symbol search succeeded                                    *)
(*   modGen the array the pass pushed its module to                        *)
(*   late   history: what the pass appended with its signal aborted        *)
(*   failedAt   history: the folder whose discovery failed, signal intact  *)
(* A finished pass keeps pc, root (the last folder it entered) and the     *)
(* history fields.                                                         *)
(* Symbol k of a folder lies in package k of that folder; package 1 is the *)
(* folder itself (relativePath === ''), the others are sub-directories.    *)
(***************************************************************************)
TreePassIds == 1..MaxPass
\* the benchmark the editor's code lens asks for: symbol 1 of folder 1
FindKey == <<1, 1>>
TreeResults == {"fail", "empty", "ok"}

IdleTreePass ==
    [pc |-> "none", sig |-> 0, rsig |-> 0, root |-> 0, sym |-> 0,
     found |-> FALSE, modGen |-> 0, late |-> {}, failedAt |-> 0]

IdleFind ==
    [pc |-> "none", key |-> <<0, 0>>, awaits |-> 0, out |-> "none",
     had |-> FALSE, settled |-> FALSE, waited |-> FALSE]

TreeState ==
    [modules |-> tModules, gen |-> tGen, items |-> benchmarkItems,
     lp |-> loadingPromise, pass |-> tPass, ab |-> tAborted, ctl |-> tCtl,
     find |-> find]

\* findBenchmark after ensureLoaded(): benchmarkItems.find(...), and the throw
\* of 'Benchmark not found' when it returned undefined
Lookup(d) ==
    [d.find EXCEPT !.pc = "done", !.had = d.find.key \in d.items,
                   !.out = IF d.find.key \in d.items THEN "item" ELSE "NotFound",
                   !.settled = d.pass[d.find.awaits].pc = "done"]

\* the promise of pass p settled: a findBenchmark() that awaits it goes on
ResumeFind(d, p) ==
    IF d.find.pc = "waiting" /\ d.find.awaits = p
    THEN [d EXCEPT !.find = Lookup(d)]
    ELSE d

\* the finally block of loadModules (the notification), and the .catch of
\* getChildren that swallows a rejection: the loading promise resolves
loadModulesFinally(d, p, t) ==
    ResumeFind([d EXCEPT !.pass[p] = [IdleTreePass EXCEPT
                                         !.pc = "done", !.root = d.pass[p].root,
                                         !.late = d.pass[p].late,
                                         !.failedAt = d.pass[p].failedAt]], p)

\* an error reached the catch blocks: loadModulesInWorkspace rethrows it,
\* the catch around the call rethrows it, and the outer catch rethrows it
\* when the signal is aborted and drops it otherwise; the loop is left
loadModulesThrow(d, p) ==
    IF d.pass[p].sig \in d.ab
    THEN loadModulesFinally(d, p, TRUE)
    ELSE loadModulesFinally([d EXCEPT !.pass[p].failedAt = d.pass[p].root], p, FALSE)

\* loadModulesInWorkspace(folder r) up to its first await
loadModulesInWorkspace(d, p, r) ==
    LET d1 == [d EXCEPT !.pass[p].root = r, !.pass[p].rsig = d.ctl,
                        !.pass[p].sym = 0]
    IN  IF d.ctl \in d.ab
        THEN loadModulesThrow(d1, p)
        ELSE [d1 EXCEPT !.pass[p].pc = "listm"]

\* loadModules: the iteration of `for (const workspaceFolder of ...)` for r
loadModulesLoop(d, p, r) ==
    IF r > tFolders THEN loadModulesFinally(d, p, FALSE)
    ELSE IF d.pass[p].sig \in d.ab THEN loadModulesFinally(d, p, TRUE)
    ELSE loadModulesInWorkspace(d, p, r)

\* module.packages.push(pkg) and the notification, for each package of the
\* packageMap; then loadModulesInWorkspace returns
AddPackages(d, p) ==
    LET ps == d.pass[p]
        n  == IF ps.found THEN tSyms ELSE 0
        ms == IF ps.modGen # d.gen THEN d.modules
              ELSE [i \in 1..Len(d.modules) |->
                       IF d.modules[i].name = ps.root /\ d.modules[i].by = p
                       THEN [d.modules[i] EXCEPT
                                !.packages = @ \o [k \in 1..n |-> k]]
                       ELSE d.modules[i]]
        lt == IF n > 0 /\ ps.rsig \in d.ab THEN {"package"} ELSE {}
    IN  loadModulesLoop([d EXCEPT !.modules = ms, !.pass[p].late = @ \cup lt],
                        p, ps.root + 1)

\* `for (const symbol of benchmarkSymbols)` from symbol k on
RECURSIVE symbolLoop(_, _, _)
symbolLoop(d, p, k) ==
    IF k > (IF d.pass[p].found THEN tSyms ELSE 0) THEN AddPackages(d, p)
    ELSE IF d.pass[p].rsig \in d.ab THEN loadModulesThrow(d, p)
    ELSE IF k = 1 THEN [d EXCEPT !.pass[p].pc = "pkgname", !.pass[p].sym = k]
    ELSE symbolLoop(d, p, k + 1)

\* the continuation of what pass p awaits
treeSettled(d, p, res) ==
    LET ps == d.pass[p]
    IN  IF ps.pc = "symbols"
        THEN loadModulesLoop([d EXCEPT !.pass[p].found = (res # "fail")], p, 1)
        ELSE IF ps.pc = "pkgname"
        THEN symbolLoop(d, p, ps.sym + 1)
        ELSE IF res = "fail" THEN loadModulesThrow(d, p)
        ELSE IF res = "empty" THEN loadModulesLoop(d, p, ps.root + 1)
        ELSE LET d1 == [d EXCEPT
                           !.modules = Append(@, [name |-> ps.root, by |-> p,
                                                  packages |-> <<>>]),
                           !.pass[p].modGen = d.gen,
                           !.pass[p].late = IF ps.rsig \in d.ab
                                            THEN @ \cup {"module"} ELSE @]
             IN  IF ps.rsig \in d.ab THEN loadModulesThrow(d1, p)
                 ELSE symbolLoop(d1, p, 1)

\* abort() of controller c: `go list -m` is the one command started with
\* the signal; the passes in E are those whose child had already exited
RECURSIVE treeAbort(_, _, _, _)
treeAbort(d, c, E, p) ==
    IF p > MaxPass THEN d
    ELSE IF d.pass[p].pc = "listm" /\ d.pass[p].rsig = c /\ p \notin E
    THEN treeAbort(loadModulesThrow(d, p), c, E, p + 1)
    ELSE treeAbort(d, c, E, p + 1)

TreeAwaiting(c) == {p \in TreePassIds : tPass[p].pc = "listm" /\ tPass[p].rsig = c}

\* getChildren() for the root when loadingPromise is null: loadModules()
\* runs up to its first await and its promise is stored
StartLoading(d, p) ==
    LET d1 == [d EXCEPT !.lp = p, !.pass[p] = [IdleTreePass EXCEPT !.sig = d.ctl]]
    IN  IF tFolders = 0 THEN loadModulesFinally(d1, p, FALSE)
        ELSE [d1 EXCEPT !.pass[p].pc = "symbols"]

\* (variant of ensureLoaded that does not await the loading promise)
ensureLoadedNoWait(d) ==
    [d EXCEPT !.find = Lookup([d EXCEPT !.find.awaits = d.lp])]

\* ensureLoaded(), entered with a loading promise: await it
ensureLoaded(d) ==
    IF d.pass[d.lp].pc = "done"
    THEN [d EXCEPT !.find = Lookup([d EXCEPT !.find.awaits = d.lp])]
    ELSE [d EXCEPT !.find.pc = "waiting", !.find.awaits = d.lp,
                   !.find.waited = TRUE]

SetTree(d) ==
    /\ tModules' = d.modules /\ tGen' = d.gen /\ benchmarkItems' = d.items
    /\ loadingPromise' = d.lp /\ tPass' = d.pass /\ tAborted' = d.ab
    /\ tCtl' = d.ctl /\ find' = d.find

\* the host asks for the root's children
TreeGetChildren ==
    /\ loadingPromise = 0 /\ tNPass < MaxPass
    /\ SetTree(StartLoading(TreeState, tNPass + 1))
    /\ tNPass' = tNPass + 1
    /\ UNCHANGED <<outsideTree, tFolders, tSyms>>

\* the host asks for the children of the package item of package k of the
\* i-th module: its benchmark items are added to the BenchmarkItemCache
PackageGetChildren(i, k) ==
    /\ i \in 1..Len(tModules) /\ k \in Range(tModules[i].packages)
    /\ <<tModules[i].name, k>> \notin benchmarkItems
    /\ benchmarkItems' = benchmarkItems \cup {<<tModules[i].name, k>>}
    /\ UNCHANGED <<outsideTree, tFolders, tSyms, tCtl, tAborted, tModules, tGen,
                   loadingPromise, tPass, tNPass, find>>

\* what pass p awaits settles
TreeSettles(p, res) ==
    /\ tPass[p].pc \in {"symbols", "listm", "pkgname"}
    /\ SetTree(treeSettled(TreeState, p, res))
    /\ UNCHANGED <<outsideTree, tFolders, tSyms, tNPass>>

\* cancelAll()
TreeCancelAll ==
    /\ tCtl <= MaxRefresh
    /\ \E E \in SUBSET TreeAwaiting(tCtl) :
           SetTree(treeAbort([TreeState EXCEPT !.ab = @ \cup {tCtl}, !.ctl = @ + 1],
                             tCtl, E, 1))
    /\ UNCHANGED <<outsideTree, tFolders, tSyms, tNPass>>

\* refresh(): cancelAll(), then the caches and the loading promise are reset
TreeRefresh ==
    /\ tCtl <= MaxRefresh
    /\ \E E \in SUBSET TreeAwaiting(tCtl) :
           SetTree(treeAbort([TreeState EXCEPT !.ab = @ \cup {tCtl}, !.ctl = @ + 1,
                                                !.modules = <<>>, !.gen = @ + 1,
                                                !.items = {}, !.lp = 0],
                             tCtl, E, 1))
    /\ UNCHANGED <<outsideTree, tFolders, tSyms, tNPass>>

\* findBenchmark(packagePath, benchmarkName) up to its first real wait
FindBenchmark(key) ==
    /\ find.pc = "none"
    /\ LET d0 == [TreeState EXCEPT !.find.key = key]
       IN  IF loadingPromise = 0
           THEN /\ tNPass < MaxPass
                /\ SetTree(ensureLoaded(StartLoading(d0, tNPass + 1)))
                /\ tNPass' = tNPass + 1
           ELSE /\ SetTree(ensureLoaded(d0))
                /\ tNPass' = tNPass
    /\ UNCHANGED <<outsideTree, tFolders, tSyms>>

\* runAllBenchmarks(treeView): the benchmarks it submits a run for, one for
\* every value of this.benchmarkItems (the signal it holds is the fresh one)
runAllBenchmarks(d) == d.items

\* the tree variables in a behaviour that does not exercise the tree
TreeIdle ==
    /\ tFolders = 0 /\ tSyms = 0 /\ tCtl = 1 /\ tAborted = {}
    /\ tModules = <<>> /\ tGen = 0 /\ benchmarkItems = {}
    /\ loadingPromise = 0
    /\ tPass = [p \in TreePassIds |-> IdleTreePass] /\ tNPass = 0
    /\ find = IdleFind

-----------------------------------------------------------------------------
(***************************************************************************)
(* Provider and GoAllocationsProvider of goAllocationsProvider.ts: a flat   *)
(* package list, and a refresh() that replaces the list and resets the     *)
(* flags without cancelling.  The behaviours hold refresh() and root       *)
(* getChildren() calls only, so no signal is ever aborted.                 *)
(***************************************************************************)
\* notified: history: the pass fired its last change notification
IdleFlatPass ==
    [pc |-> "none", gen |-> 0, root |-> 0, nPk |-> 0, pkg |-> 0, notified |-> FALSE]

FlatState ==
    [packages |-> flatPackages, gen |-> flatGen, packagesLoaded |-> flatLoaded,
     discoveryInProgress |-> flatInProgress, pass |-> flatPass,
     folders |-> flatFolders, class |-> flatClass]

\* the finally block of Provider.loadPackages; the last statements of
\* GoAllocationsProvider.loadPackages
flatFinally(d, p) ==
    [d EXCEPT !.packagesLoaded = TRUE, !.discoveryInProgress = FALSE,
              !.pass[p].pc = "done", !.pass[p].notified = TRUE]

\* `if (!vscode.workspace.workspaceFolders) { ...; return; }`: Provider sets
\* both flags, GoAllocationsProvider sets packagesLoaded only
flatNoFolders(d, p) ==
    IF d.class = "Provider" THEN flatFinally(d, p)
    ELSE [d EXCEPT !.packagesLoaded = TRUE,
                   !.pass[p].pc = "done", !.pass[p].notified = TRUE]

\* the next iteration of `for (const workspaceFolder of ...)`:
\* loadPackagesFromWorkspace up to the await of `go list ./...`
flatFolderLoop(d, p) ==
    IF d.pass[p].root >= d.folders THEN flatFinally(d, p)
    ELSE [d EXCEPT !.pass[p].root = @ + 1, !.pass[p].pc = "listpk",
                   !.pass[p].nPk = 0, !.pass[p].pkg = 0]

\* the next iteration of `for (let line of packageLines)`, up to the await
\* of `go test -list`
flatPackageLoop(d, p) ==
    IF d.pass[p].pkg >= d.pass[p].nPk THEN flatFolderLoop(d, p)
    ELSE [d EXCEPT !.pass[p].pkg = @ + 1, !.pass[p].pc = "listbench"]

\* (variant of flatPush in which a pass appends only to the list it started
\* with)
flatPushOwnList(d, p, n) ==
    IF d.pass[p].gen # d.gen THEN d.packages
    ELSE Append(d.packages, [path |-> <<d.pass[p].root, d.pass[p].pkg>>, by |-> p,
                             benchmarks |-> n])

\* this.packages.push(pkg): the list this.packages refers to at that moment
flatPush(d, p, n) ==
    Append(d.packages, [path |-> <<d.pass[p].root, d.pass[p].pkg>>, by |-> p,
                        benchmarks |-> n])

\* the continuation of the command pass p awaited: a failing `go list` is
\* rethrown and caught in loadPackages, which goes on with the next folder;
\* a failing or empty `go test -list` skips the package
flatSettled(d, p, res) ==
    IF d.pass[p].pc = "listpk"
    THEN IF ~res.ok THEN flatFolderLoop(d, p)
         ELSE flatPackageLoop([d EXCEPT !.pass[p].nPk = res.n, !.pass[p].pkg = 0], p)
    ELSE IF res.ok /\ res.n > 0
         THEN flatPackageLoop([d EXCEPT !.packages = flatPush(d, p, res.n)], p)
         ELSE flatPackageLoop(d, p)

\* refresh(): a new list, the flags reset, no cancellation
flatRefresh(d) ==
    [d EXCEPT !.packages = <<>>, !.gen = @ + 1, !.packagesLoaded = FALSE,
              !.discoveryInProgress = FALSE]

\* getChildren(undefined): start loadPackages() as pass p unless a pass is in
\* progress or the packages are loaded
flatGetChildren(d, p) ==
    IF ~d.discoveryInProgress /\ ~d.packagesLoaded
    THEN LET d1 == [d EXCEPT !.discoveryInProgress = TRUE,
                             !.pass[p] = [IdleFlatPass EXCEPT !.gen = d.gen]]
         IN  IF d.folders = 0 THEN flatNoFolders(d1, p) ELSE flatFolderLoop(d1, p)
    ELSE d

SetFlat(d) ==
    /\ flatPackages' = d.packages /\ flatGen' = d.gen
    /\ flatLoaded' = d.packagesLoaded /\ flatInProgress' = d.discoveryInProgress
    /\ flatPass' = d.pass

FlatRootGetChildren ==
    /\ ~flatInProgress /\ ~flatLoaded /\ flatNPass < MaxFlatPass
    /\ SetFlat(flatGetChildren(FlatState, flatNPass + 1))
    /\ flatNPass' = flatNPass + 1
    /\ UNCHANGED <<outsideFlat, flatClass, flatFolders>>

\* the command pass p awaits ends; a directory that is probed again lists
\* what it listed before
FlatExecSettles(p, res) ==
    /\ flatPass[p].pc \in {"listpk", "listbench"}
    /\ flatPass[p].pc = "listpk" => (res.ok => res.n > 0)
    /\ \A k \in 1..Len(flatPackages) :
           (flatPass[p].pc = "listbench" /\ res.ok /\ res.n > 0
              /\ flatPackages[k].path = <<flatPass[p].root, flatPass[p].pkg>>)
           => flatPackages[k].benchmarks = res.n
    /\ SetFlat(flatSettled(FlatState, p, res))
    /\ UNCHANGED <<outsideFlat, flatClass, flatFolders, flatNPass>>

FlatRefresh ==
    /\ flatGen < MaxFlatRefresh
    /\ SetFlat(flatRefresh(FlatState))
    /\ UNCHANGED <<outsideFlat, flatClass, flatFolders, flatNPass>>

\* the variables of this provider in a behaviour that does not exercise it
FlatIdle ==
    /\ flatClass = "Provider" /\ flatFolders = 0 /\ flatPackages = <<>> /\ flatGen = 0
    /\ flatLoaded = FALSE /\ flatInProgress = FALSE
    /\ flatPass = [p \in PassIds |-> IdleFlatPass] /\ flatNPass = 0

-----------------------------------------------------------------------------
(***************************************************************************)
(* The string functions of discovery and of the run command, each applied  *)
(* to one argument.                                                        *)
(***************************************************************************)
sBenchmark == <<"B","e","n","c","h","m","a","r","k">>
sOk == <<"o","k">>

\* lines `go test -list` prints: benchmark names, and its last line
\* BenchmarkA
lBenchmarkA == sBenchmark \o <<"A">>
\* BenchmarkLookup
lBenchmarkLookup == sBenchmark \o <<"L","o","o","k","u","p">>
\* BenchmarkB, with a blank after it
lBenchmarkB == sBenchmark \o <<"B"," ">>
\* ok  pkg
lOkPkg == <<"o","k"," "," ","p","k","g">>
ListPool == {lBenchmarkA, lBenchmarkLookup, lBenchmarkB, lOkPkg, <<>>}
Outputs == UNION {[1..n -> ListPool] : n \in 0..MaxOut}

\* the text of stdout: every line with its newline
RECURSIVE Stdout(_)
Stdout(ls) == IF ls = <<>> THEN <<>> ELSE Head(ls) \o <<"\n">> \o Stdout(Tail(ls))

\* String.prototype.split(c)
RECURSIVE split(_, _)
split(s, c) ==
    With({i \in 1..Len(s) : s[i] = c}, LAMBDA S :
        IF S = {} THEN <<s>>
        ELSE <<SubSeq(s, 1, Min(S) - 1)>> \o split(SubSeq(s, Min(S) + 1, Len(s)), c))

\* benchmarksOutput.trim().split('\n').filter(...).map(line => line.trim());
\* the filter of provider.ts also asks !line.includes('ok')
benchmarks(benchmarksOutput, src) ==
    LET White == Space \cup {"\n", "\r"}
        a     == Run(benchmarksOutput, 1, White)
        b     == RunBack(benchmarksOutput, Len(benchmarksOutput), White)
        text  == IF a = Len(benchmarksOutput) THEN <<>>
                 ELSE SubSeq(benchmarksOutput, a + 1, Len(benchmarksOutput) - b)
        keep  == SelectSeq(split(text, "\n"),
                           LAMBDA line : /\ startsWith(line, sBenchmark)
                                         /\ src = "provider.ts" => ~includes(line, sOk))
    IN  [i \in 1..Len(keep) |-> trim(keep[i])]

\* the probe of a package has printed the lines fnArg
ListBenchmarks ==
    /\ fnName \in {"provider.ts", "part_008"} /\ fnRes = <<>>
    /\ fnRes' = <<benchmarks(Stdout(fnArg), fnName)>>
    /\ UNCHANGED <<outsideFn, fnName, fnArg>>

\* the names of the benchmarks of a package: BenchmarkX, BenchmarkY,
\* BenchmarkXY, BenchmarkYX, BenchmarkXX, BenchmarkBenchmarkX
NamePool ==
    {sBenchmark \o x : x \in {<<"X">>, <<"Y">>, <<"X","Y">>, <<"Y","X">>,
                              <<"X","X">>, sBenchmark \o <<"X">>}}

\* quote([benchmarkName]) of shell-quote, for a name without blanks and
\* quotes: the characters the shell reads specially get a backslash
RECURSIVE quote(_)
quote(name) ==
    IF name = <<>> THEN <<>>
    ELSE (IF Head(name) \in {"#", "!", "$", "&", "(", ")", "*", ",", ":", ";", "<",
                             "=", ">", "?", "@", "[", "\\", "]", "^", "{", "|", "}"}
          THEN <<"\\", Head(name)>> ELSE <<Head(name)>>) \o quote(Tail(name))

\* (variant of benchPattern with no anchor at the end)
benchPatternOpenEnd(benchmarkName) == <<"^">> \o quote(benchmarkName)

\* the value of -bench in `go test -bench=^${escapedBenchmarkName}$ ...`
benchPattern(benchmarkName) == <<"^">> \o quote(benchmarkName) \o <<"$">>

\* go test selects a benchmark when the pattern matches its name somewhere
\* (regexp.MatchString), for a pattern of literal characters with an
\* optional ^ in front and an optional $ at the end
matchString(pat, name) ==
    LET hat == pat # <<>> /\ pat[1] = "^"
        dol == Len(pat) > (IF hat THEN 1 ELSE 0) /\ pat[Len(pat)] = "$"
        lit == SubSeq(pat, IF hat THEN 2 ELSE 1, IF dol THEN Len(pat) - 1 ELSE Len(pat))
    IN  \E i \in 1..(Len(name) + 1) :
            /\ At(name, i, lit)
            /\ hat => i = 1
            /\ dol => i + Len(lit) - 1 = Len(name)

\* BenchmarkItem.getChildren builds the command for the benchmark fnArg
BuildCommand ==
    /\ fnName = "bench" /\ fnRes = <<>>
    /\ fnRes' = <<benchPattern(fnArg)>>
    /\ UNCHANGED <<outsideFn, fnName, fnArg>>

\* package directories as `go list` and the workspace give them, and
\* spellings of them that path.resolve rewrites
DirPool ==
    { <<"/", "a">>, <<"/", "a", "/">>, <<"/", "a", "/", ".">>,
      <<"/", "a", "/", "b">>, <<"/", "a", "/", "b", "/", ".", ".">>,
      <<"/", "a", "/", "/", "b">>,
      <<"/", "a", ":">>, <<"/", "a", ":", ":", "b">>, <<"/", "a", ":", ":", "b", "/">>,
      <<"/", "a">> \o sBenchmark,
      <<"/", "a", ":", ":">> \o sBenchmark \o <<"X">>,
      <<"/", "a", ":", ":">> \o sBenchmark \o <<"X", "/">>,
      <<"/", "a", ":">> \o sBenchmark \o <<"X">> }

RECURSIVE normalizeSegments(_, _)
\* the segments of a path without "", "." and "..", each ".." taking the
\* segment before it along
normalizeSegments(segs, acc) ==
    IF segs = <<>> THEN acc
    ELSE LET seg == Head(segs)
         IN  IF seg = <<>> \/ seg = <<".">> THEN normalizeSegments(Tail(segs), acc)
             ELSE IF seg = <<".", ".">>
             THEN normalizeSegments(Tail(segs),
                      IF acc = <<>> THEN acc ELSE SubSeq(acc, 1, Len(acc) - 1))
             ELSE normalizeSegments(Tail(segs), Append(acc, seg))

RECURSIVE joinSegments(_)
joinSegments(segs) ==
    IF segs = <<>> THEN <<>>
    ELSE <<"/">> \o Head(segs) \o joinSegments(Tail(segs))

\* path.resolve(p) of an absolute POSIX path: the normalized path without a
\* trailing separator
resolve(p) ==
    LET segs == normalizeSegments(split(p, "/"), <<>>)
    IN  IF segs = <<>> THEN <<"/">> ELSE joinSegments(segs)

\* (variant of getKey that puts nothing between directory and name)
getKeyNoSeparator(packagePath, benchmarkName) ==
    resolve(packagePath) \o benchmarkName

\* BenchmarkItemCache.getKey
getKey(packagePath, benchmarkName) ==
    resolve(packagePath) \o <<":", ":">> \o benchmarkName

\* getBenchmarkKey
getBenchmarkKey(packagePath, benchmarkName) ==
    resolve(packagePath) \o <<":">> \o benchmarkName

\* the key by which the index fnName keeps the benchmark fnArg[2] of the
\* package directory fnArg[1]
KeyOf(index, packagePath, benchmarkName) ==
    IF index = "getKey" THEN getKey(packagePath, benchmarkName)
    ELSE getBenchmarkKey(packagePath, benchmarkName)

\* BenchmarkItemCache.add / find and benchmarkItems.set / get compute the key
MakeKey ==
    /\ fnName \in {"getKey", "getBenchmarkKey"} /\ fnRes = <<>>
    /\ fnRes' = <<KeyOf(fnName, fnArg[1], fnArg[2])>>
    /\ UNCHANGED <<outsideFn, fnName, fnArg>>

\* what Date.now(), Math.random().toString(36).slice(2, 11) and process.pid
\* can give, as text: two instants, tokens (the token of 0 is empty), two
\* processes
NowPool == {<<"1","7">>, <<"1","8">>}
TokenPool == {<<>>, <<"k">>, <<"k","7">>, <<"1","7">>}
PidPool == {<<"7">>, <<"1","7">>}
Invocations == NowPool \X TokenPool \X PidPool

\* /tmp
sTmpDir == <<"/","t","m","p">>
\* go-allocations-memprofile-
sMemprofile ==
    <<"g","o","-","a","l","l","o","c","a","t","i","o","n","s","-","m","e","m","p","r","o","f","i","l","e","-">>
\* .pb.gz
sPbGz == <<".","p","b",".","g","z">>

\* `${Date.now()}-${Math.random().toString(36).slice(2, 11)}-${process.pid}`
uniqueId(now, token, pid) == now \o <<"-">> \o token \o <<"-">> \o pid

\* path.join(tempDir, `go-allocations-memprofile-${uniqueId}.pb.gz`)
memprofilePath(inv) ==
    sTmpDir \o <<"/">> \o sMemprofile \o uniqueId(inv[1], inv[2], inv[3]) \o sPbGz

\* two executions that are in flight together choose their temporary paths
ChoosePaths ==
    /\ fnName = "memprofilePath" /\ fnRes = <<>>
    /\ fnRes' = <<memprofilePath(fnArg[1]), memprofilePath(fnArg[2])>>
    /\ UNCHANGED <<outsideFn, fnName, fnArg>>

\* the function variables in a behaviour that does not exercise them
FnIdle == fnName = "none" /\ fnArg = <<>> /\ fnRes = <<>>

InitFn ==
    /\ BatchIdle /\ DiscIdle /\ ParseIdle /\ TreeIdle /\ FlatIdle
    /\ fnName \in {"provider.ts", "part_008", "bench", "getKey", "getBenchmarkKey",
                   "memprofilePath"}
    /\ fnArg \in (IF fnName = "bench" THEN NamePool
                  ELSE IF fnName = "memprofilePath" THEN Invocations \X Invocations
                  ELSE IF fnName \in {"getKey", "getBenchmarkKey"}
                  THEN DirPool \X NamePool
                  ELSE Outputs)
    /\ fnRes = <<>>

NextFn ==
    \/ ListBenchmarks
    \/ BuildCommand
    \/ MakeKey
    \/ ChoosePaths

SpecFn == InitFn /\ [][NextFn]_vars

InitFlat ==
    /\ BatchIdle /\ DiscIdle /\ ParseIdle /\ TreeIdle /\ FnIdle
    /\ flatClass \in {"Provider", "GoAllocationsProvider"}
    /\ flatFolders \in 0..MaxRoots
    /\ flatPackages = <<>> /\ flatGen = 0
    /\ flatLoaded = FALSE /\ flatInProgress = FALSE
    /\ flatPass = [p \in PassIds |-> IdleFlatPass] /\ flatNPass = 0

NextFlat ==
    \/ FlatRootGetChildren
    \/ \E p \in PassIds, res \in ExecResults : FlatExecSettles(p, res)
    \/ FlatRefresh

SpecFlat == InitFlat /\ [][NextFlat]_vars

\* every external command eventually returns
FlatCommandsReturn ==
    \A p \in PassIds : WF_vars(\E res \in ExecResults : FlatExecSettles(p, res))

SpecFlatLive == SpecFlat /\ FlatCommandsReturn

-----------------------------------------------------------------------------
InitBatch ==
    /\ variant \in {"sema"} \cup ExtVariants
    /\ ctl = 1 /\ aborted = {}
    /\ nBench \in (IF variant = "sema" THEN 0..MaxBench ELSE {0})
    /\ batch = "idle" /\ batchSig = 0
    /\ task = NoTasks
    /\ sema = [free |-> SemaCapacity, waiting |-> <<>>]
    /\ run = [t \in Benchmarks |-> IdleRun]
    /\ extCtl = 0 /\ extMade = 0 /\ extSig = 0 /\ extPhase = "idle"
    /\ extN \in (IF variant \in ExtVariants THEN 0..MaxExtBench ELSE {0})
    /\ extSingle = [pc |-> "idle", sig |-> 0]
    /\ extBase = 0
    /\ extTask = [t \in ExtBenchmarks |-> "none"]
    /\ semaphore = [i \in 1..concurrency |-> 0]
    /\ DiscIdle /\ ParseIdle /\ TreeIdle /\ FnIdle /\ FlatIdle

NextBatch ==
    \/ RunAll
    \/ CancelAll
    \/ \E t \in Benchmarks : HostGetChildren(t)
    \/ \E t \in Benchmarks : HostGetChildrenAgain(t)
    \/ \E t \in Benchmarks : RevealResolves(t)
    \/ \E t \in Benchmarks : RevealRejects(t)
    \/ \E t \in Benchmarks, ok \in BOOLEAN : ProcExit(t, ok)
    \/ \E t \in Benchmarks : ProcClose(t)
    \/ \E t \in Benchmarks : ProcDies(t)
    \/ \E t \in Benchmarks, st \in ParseSettlements : ParseSettles(t, st)
    \/ \E t \in Benchmarks : UnlinkSettles(t)
    \/ RunAllCommand
    \/ CollectEnds
    \/ StopCommand
    \/ RunSingleCommand
    \/ SingleEnds
    \/ \E t \in ExtBenchmarks : ExtRevealResolves(t)
    \/ \E t \in ExtBenchmarks : ExtRevealRejects(t)
    \/ \E t \in ExtBenchmarks : ExtRunReturns(t)
    \/ \E t \in ExtBenchmarks : ExtPollTimer(t)

SpecBatch == InitBatch /\ [][NextBatch]_vars

\* every benchmark execution ends: the child exits and closes, pprof and the
\* unlink settle, the host answers a reveal, a timer that was set fires
ExecutionsEnd ==
    /\ \A t \in Benchmarks :
           /\ WF_vars(HostGetChildren(t) \/ RevealRejects(t))
           /\ WF_vars(RevealResolves(t))
           /\ WF_vars(\E ok \in BOOLEAN : ProcExit(t, ok))
           /\ WF_vars(ProcClose(t))
           /\ WF_vars(\E st \in ParseSettlements : ParseSettles(t, st))
           /\ WF_vars(UnlinkSettles(t))
    /\ WF_vars(CollectEnds)
    /\ \A t \in ExtBenchmarks :
           /\ WF_vars(ExtRevealResolves(t) \/ ExtRevealRejects(t))
           /\ WF_vars(ExtRunReturns(t))
           /\ WF_vars(ExtPollTimer(t))

SpecBatchLive == SpecBatch /\ ExecutionsEnd

InitDisc ==
    /\ BatchIdle /\ ParseIdle /\ TreeIdle /\ FnIdle /\ FlatIdle
    /\ nRoots \in 0..MaxRoots
    /\ nested \in (IF nRoots = 2 THEN BOOLEAN ELSE {FALSE})
    /\ abortController = 1 /\ abortedSignals = {}
    /\ modules = <<>> /\ cacheGen = 0
    /\ packagesLoaded = FALSE /\ discoveryInProgress = FALSE
    /\ pass = [p \in PassIds |-> IdlePass] /\ nPass = 0
    /\ sinceRefresh = "none" /\ newPass = 0

NextDisc ==
    \/ RootGetChildren
    \/ Refresh
    \/ StopDiscovery
    \/ \E p \in PassIds, res \in ExecResults : ExecSettles(p, res)

SpecDisc == InitDisc /\ [][NextDisc]_vars

\* every external command eventually returns or is terminated
CommandsReturn ==
    \A p \in PassIds : WF_vars(\E res \in ExecResults : ExecSettles(p, res))

SpecDiscLive == SpecDisc /\ CommandsReturn

InitParse ==
    /\ BatchIdle /\ DiscIdle /\ TreeIdle /\ FnIdle /\ FlatIdle
    /\ parser \in {"stream", "filter"}
    /\ goMod \in (IF parser = "filter" THEN {<<>>, sGoModPath} ELSE {<<>>})
    /\ goRoot \in (IF parser = "filter" THEN {<<>>, sGoRootPath} ELSE {<<>>})
    /\ listing \in Listings
    /\ pos = 0 /\ items = <<>>
    /\ currentFunction = <<>> /\ currentFile = <<>> /\ inFunction = FALSE
    /\ results = <<>>
    /\ stderr = <<>> /\ code = -1 /\ events = <<>>

NextParse ==
    \/ OnLine
    \/ OnClose
    \/ \E data \in StderrPool : StderrData(data)
    \/ \E c \in ExitCodes : ChildClose(c)
    \/ ChildError
    \/ LoopLine
    \/ LoopEnds

SpecParse == InitParse /\ [][NextParse]_vars

InitTree ==
    /\ BatchIdle /\ DiscIdle /\ ParseIdle /\ FnIdle /\ FlatIdle
    /\ tFolders \in 0..MaxRoots /\ tSyms \in 0..MaxSyms
    /\ tCtl = 1 /\ tAborted = {}
    /\ tModules = <<>> /\ tGen = 0 /\ benchmarkItems = {}
    /\ loadingPromise = 0
    /\ tPass = [p \in TreePassIds |-> IdleTreePass] /\ tNPass = 0
    /\ find = IdleFind

NextTree ==
    \/ TreeGetChildren
    \/ \E i \in 1..Len(tModules), k \in 1..MaxSyms : PackageGetChildren(i, k)
    \/ \E p \in TreePassIds, res \in TreeResults : TreeSettles(p, res)
    \/ TreeCancelAll
    \/ TreeRefresh
    \/ FindBenchmark(FindKey)

SpecTree == InitTree /\ [][NextTree]_vars

-----------------------------------------------------------------------------
(* Executions that hold a slot of the batch *)
InFlight    == {t \in Benchmarks : task[t] \in {"reveal", "exec"}}
ExtInFlight == {t \in ExtBenchmarks : extTask[t] \in {"reveal", "run"}}

\* C1: in a batch run the number of benchmark executions that acquired a slot
\* and have not released it never exceeds the bound: 2 for the Sema of
\* runAllBenchmarksSimple / runAllBenchmarks, 4 for the slot array of the
\* run-all command; and no task of the command runs without holding a slot.
C1_ConcurrencyBound ==
    /\ Cardinality(InFlight) <= SemaCapacity
    /\ Cardinality(InFlight) + sema.free <= SemaCapacity
    /\ Cardinality(ExtInFlight) <= concurrency
    /\ \A t \in ExtInFlight : \E i \in 1..concurrency : semaphore[i] = t

\* the bound is reached again after a task ended and its token went to a
\* task that had been waiting
C1_Witness ==
    /\ Cardinality(InFlight) = SemaCapacity
    /\ \E t \in Benchmarks : task[t] = "done"
    /\ \E t \in InFlight : t > SemaCapacity

\* C2: once cancelAll() was called during a batch, no further benchmark of the
\* batch is started, and every execution the batch started runs under the
\* batch's signal, the one that was cancelled.
C2_CancelStopsBatch ==
    (variant = "sema" /\ batchSig \in aborted) =>
        \A t \in Benchmarks : run[t].pc # "idle" => run[t].sig = batchSig

\* C3: after refresh(), whenever it is called, the next root getChildren()
\* starts a new discovery pass, and when that pass has run to its end every
\* module of the cache was put there by that pass.
C3_RefreshRestartsDiscovery ==
    /\ sinceRefresh # "skipped"
    /\ (newPass # 0 /\ pass[newPass].pc = "done" /\ ~pass[newPass].threw) =>
           \A i \in 1..Len(modules) : modules[i].by = newPass

\* C4 as claimed: every execution that chose a temporary path unlinks it
\* exactly once, and only after the benchmark process and the parse ended.
C4_DeletedOnceAfterProcessEnded ==
    \A t \in Benchmarks : run[t].path # 0 =>
        /\ run[t].unlinks <= 1
        /\ (run[t].pc = "returned" => run[t].unlinks = 1)
        /\ (run[t].unlinks = 1 =>
               /\ run[t].pc \in {"unlink", "returned"}
               /\ run[t].procAtUnlink = "gone")

\* C4 amended: every execution that chose a temporary path issues the unlink
\* exactly once, after the benchmark command's promise and, when started, the
\* parse's promise settled; the benchmark process has ended by then unless the
\* run was cancelled, in which case it was killed and may still be terminating.
C4_DeletedOnceAfterSettled ==
    \A t \in Benchmarks : run[t].path # 0 =>
        /\ run[t].unlinks <= 1
        /\ (run[t].pc = "returned" => run[t].unlinks = 1)
        /\ (run[t].unlinks = 1 =>
               /\ run[t].pc \in {"unlink", "returned"}
               /\ \/ run[t].procAtUnlink = "gone"
                  \/ run[t].procAtUnlink = "terminating" /\ run[t].cancelled)

\* a cancelled execution returned after its single unlink, issued while the
\* killed child was still terminating
C4_Witness ==
    \E t \in Benchmarks :
        /\ run[t].pc = "returned" /\ run[t].path # 0 /\ run[t].unlinks = 1
        /\ run[t].cancelled /\ run[t].procAtUnlink = "terminating"

\* C5: an execution whose signal was cancelled before or while the benchmark
\* or the parse ran does not return an error item.
C5_CancelIsNotAnError ==
    \A t \in Benchmarks :
        (run[t].pc = "returned" /\ run[t].cancelled) => run[t].ret # <<ErrorItem>>

\* C6: when the benchmark process fails and the run was not cancelled,
\* getChildren returns exactly one error item (and so does not throw).
C6_FailureIsOneErrorItem ==
    \A t \in Benchmarks :
        (run[t].pc = "returned" /\ run[t].exit = "fail" /\ ~run[t].cancelled)
            => run[t].ret = <<ErrorItem>>

C6_Witness ==
    \E t \in Benchmarks :
        run[t].pc = "returned" /\ run[t].exit = "fail" /\ ~run[t].cancelled

-----------------------------------------------------------------------------
(* What the claims about the parser say of a listing, line by line *)
IsMarker(l) == routineRegex(trim(l)).ok
IsBlank(l)  == trim(l) = <<>>

\* the last routine marker before line i (0: none)
LastMarker(i) ==
    With({m \in 1..(i - 1) : IsMarker(listing[m])}, LAMBDA Ms :
        IF Ms = {} THEN 0 ELSE Max(Ms))

\* line i lies inside a routine: a marker precedes it, and neither a blank
\* line nor line i itself ended that routine
InsideRoutine(i) ==
    With(LastMarker(i), LAMBDA m :
        /\ m # 0
        /\ ~IsMarker(listing[i])
        /\ \A b \in (m + 1)..i : ~IsBlank(listing[b]))

\* line i is an annotated line with a positive line number and a cost
IsCostLine(l) ==
    With(lineRegex(trim(l)), LAMBDA lm :
        /\ lm.ok
        /\ parseInt(lm.num) > 0
        /\ \/ lm.g1 # <<>> /\ lm.g1 # s0B
           \/ lm.g2 # <<>> /\ lm.g2 # s0B)

\* what an item says of the allocation
Record(it) == [file |-> it.file, line |-> it.line, flat |-> it.flat,
               cum |-> it.cum, fn |-> it.fn]
Records(its) == [k \in 1..Len(its) |-> Record(its[k])]

\* /a/b_test.go
sFixtureFile ==
    <<"/","a","/","b","_","t","e","s","t",".","g","o">>
\* alloc
sAlloc ==
    <<"a","l","l","o","c">>
\* 3.77GB
s377GB ==
    <<"3",".","7","7","G","B">>

FixtureRecord(n) ==
    [file |-> sFixtureFile, line |-> n, flat |-> s377GB, cum |-> s377GB, fn |-> sAlloc]

\* C7 as claimed: for the two-routine sample listing the parser emits exactly
\* one record, line 10 of /a/b_test.go with flat = cumulative = 3.77GB and
\* function alloc.
C7_FixtureOneRecord ==
    (parser = "stream" /\ listing = Fixture /\ pos = Len(listing)) =>
        Records(items) = <<FixtureRecord(10)>>

\* C7 amended: for the two-routine sample listing the parser emits exactly
\* two records, lines 9 and 10 of /a/b_test.go, each with flat = cumulative =
\* 3.77GB and function alloc, and none for a line of BenchmarkX.
C7_FixtureTwoRecords ==
    (parser = "stream" /\ listing = Fixture /\ pos = Len(listing)) =>
        Records(items) = <<FixtureRecord(9), FixtureRecord(10)>>

\* the sample listing was parsed to its end and the result returned
C7_Witness ==
    parser = "stream" /\ listing = Fixture /\ results # <<>> /\ Len(results) = 2

\* C8: every line inside a routine that is an annotated line with a positive
\* line number and a non-zero cost yields exactly one record, whatever its
\* source text, every other line yields none, and the records are in input
\* order.
C8_CostLinesYieldRecords ==
    parser = "stream" =>
        /\ \A i \in 1..pos :
              Cardinality({k \in 1..Len(items) : items[k].at = i})
                  = IF InsideRoutine(i) /\ IsCostLine(listing[i]) THEN 1 ELSE 0
        /\ \A k \in 1..(Len(items) - 1) : items[k].at < items[k + 1].at

\* C9: the parser is inside a routine after a marker line, with that marker's
\* function and file, and outside after a blank line and at the start; every
\* record comes from a line with a routine marker before it and no blank line
\* in between, and carries the function and file of the last such marker.
C9_TwoStateMachine ==
    parser = "stream" =>
        /\ (pos = 0 => ~inFunction)
        /\ (pos > 0 /\ IsBlank(listing[pos]) => ~inFunction)
        /\ (pos > 0 /\ IsMarker(listing[pos]) =>
               With(routineRegex(trim(listing[pos])), LAMBDA fm :
                   inFunction /\ currentFunction = fm.fn /\ currentFile = fm.file))
        /\ \A k \in 1..Len(items) :
               With(LastMarker(items[k].at), LAMBDA m :
                   /\ m # 0
                   /\ \A b \in (m + 1)..items[k].at : ~IsBlank(listing[b])
                   /\ With(routineRegex(trim(listing[m])), LAMBDA fm :
                          /\ items[k].file = fm.file
                          /\ items[k].fn = shortFunctionName(fm.fn)))

\* all lines are handled, and a record was emitted under the second of two
\* markers that name different files
C9_Witness ==
    /\ parser = "stream" /\ pos = Len(listing)
    /\ \E k \in 1..Len(items) :
          \E m \in 1..(LastMarker(items[k].at) - 1) :
              /\ IsMarker(listing[m])
              /\ routineRegex(trim(listing[m])).file # items[k].file

\* C10: the parser that asks isUserCode emits no record for a routine whose
\* file lies in a vendor directory or under GOROOT.
C10_NoVendoredOrStdlibRecords ==
    parser = "filter" =>
        \A k \in 1..Len(items) :
            /\ ~includes(items[k].file, sVendor)
            /\ ~(goRoot # <<>> /\ startsWith(items[k].file, goRoot))

-----------------------------------------------------------------------------
\* both close events of the streaming parser have been handled
BothClosed == parser = "stream" /\ {"rl", "child"} \subseteq Range(events)
\* no event reported an error: no child 'error' event, and not a non-zero
\* exit code together with text on the error stream
NoErrorReported ==
    /\ "error" \notin Range(events)
    /\ ~(code # 0 /\ trim(stderr) # <<>>)
OnlyNoAllocations == results = <<InformationItem(NoAllocationsItem)>>
OnlyError == results = <<InformationItem(ErrorItem)>>

C12_NonZeroExitIsError ==
    (/\ BothClosed /\ code # 0 /\ trim(stderr) # <<>>
     /\ ~includes(stderr, sNoMatches))
        => OnlyError

\* C13: findBenchmark looks the key up only when the loading promise it
\* awaited has settled; it returns the cached item when the key is present
\* and fails with 'Benchmark not found' when it is absent, and never returns
\* an undefined or empty result.
C13_FindWaitsThenFailsIfAbsent ==
    find.pc = "done" =>
        /\ find.awaits # 0 /\ find.settled
        /\ find.out = IF find.had THEN "item" ELSE "NotFound"

\* a call that had to wait for the discovery pass, and then failed
C13_Witness ==
    /\ find.pc = "done" /\ find.waited /\ ~find.had /\ find.out = "NotFound"
    /\ tPass[find.awaits].root > 0


\* the items of package k of module r and of its benchmark b, as the tree
\* hands them out
PackageItemOf(r, k) == PackageItem(r, k, ModuleItem(r))
BenchmarkItemOf(r, k, b) == BenchmarkItem(r, k, b, PackageItemOf(r, k))

\* C14: at every point of every sequence of discovery steps, refreshes and
\* cancellations, what getChildren returns is determined by the cache alone:
\* the root lists the instruction item and then one module item per cached
\* module in cache order, a module item lists one package item per cached
\* package of that module in order, and a package item lists one benchmark
\* item per cached benchmark name in order.
C14_HierarchyIsFunctionOfCache ==
    /\ Len(RootItems(ProviderState)) = Len(modules) + 1
    /\ RootItems(ProviderState)[1] = InstructionItem
    /\ \A i \in 1..Len(modules) :
          /\ RootItems(ProviderState)[i + 1] = ModuleItem(modules[i].name)
          /\ ModuleItemGetChildren(ModuleItem(modules[i].name), modules)
                = [j \in 1..Len(modules[i].packages) |->
                      PackageItemOf(modules[i].name, modules[i].packages[j].path)]
          /\ \A j \in 1..Len(modules[i].packages) :
                PackageItemGetChildren(
                    PackageItemOf(modules[i].name, modules[i].packages[j].path), modules)
                  = [b \in 1..modules[i].packages[j].benchmarks |->
                        BenchmarkItemOf(modules[i].name, modules[i].packages[j].path, b)]

\* two modules are cached, the second with a package, while the pass that
\* put them there is still running
C14_Witness ==
    /\ Len(modules) = 2 /\ modules[2].packages # <<>>
    /\ discoveryInProgress /\ ~packagesLoaded
    /\ Len(PackageItemGetChildren(PackageItemOf(modules[2].name,
                                              modules[2].packages[1].path), modules)) > 0


\* C15: a second refresh() right after a first one, with no step of a
\* discovery pass in between, leaves the provider as the first one left it:
\* the cache empty, both flags false, the current signal not aborted.
C15_RefreshTwiceIsRefreshOnce ==
    abortController < MaxRefresh =>
        \A E \in SUBSET Awaiting(abortController) :
            \A once \in {refresh(ProviderState, E)} :
                \A twice \in {refresh(once, {})} :
                    /\ twice.modules = once.modules
                    /\ twice.packagesLoaded = once.packagesLoaded
                    /\ twice.discoveryInProgress = once.discoveryInProgress
                    /\ twice.pass = once.pass
                    /\ once.modules = <<>>
                    /\ ~once.packagesLoaded /\ ~once.discoveryInProgress
                    /\ once.ctl \notin once.ab /\ twice.ctl \notin twice.ab


\* C16: after every step (cancelAll, refresh, discovery) the signal that
\* abortSignal() returns is not aborted; a discovery pass that starts takes
\* that signal, so no cancellation issued before its start is on it; and a
\* pass ends as cancelled only when the signal it took has been aborted,
\* which is then a cancellation issued after its start.
C16_FreshSignalScope ==
    [][/\ abortController' \notin abortedSignals'
       /\ \A p \in PassIds :
             /\ (pass[p].pc = "none" /\ pass'[p].pc # "none") =>
                    /\ pass'[p].sig = abortController
                    /\ pass'[p].sig \notin abortedSignals
                    /\ ~pass'[p].threw
             /\ pass'[p].threw => pass'[p].sig \in abortedSignals']_vars

\* a pass that started after a cancellation ran to its end and filled the
\* cache
C16_Witness ==
    \E p \in PassIds :
        /\ pass[p].pc = "done" /\ pass[p].sig > 1 /\ ~pass[p].threw
        /\ modules # <<>> /\ modules[1].by = p /\ modules[1].packages # <<>>


\* C17: once the signal of a TreeDataProvider discovery pass is aborted, the
\* pass appends no module and no package to the cache and fires no package
\* notification.
C17_NoAppendAfterCancel ==
    \A p \in TreePassIds : tPass[p].late = {}


\* C18: when the probe of package k of a folder fails while the signal is
\* not aborted, the cache is left as it was, the next package of the folder
\* is probed (after the last package the pass goes on to the next folder,
\* and does not end as failed), and a later package of that folder that has
\* benchmarks is added to the cache.
C18_FailedPackageIsSkipped ==
    \A p \in PassIds :
        (pass[p].pc = "listbench" /\ pass[p].rsig \notin abortedSignals) =>
            /\ \A F \in {execSettled(ProviderState, p, [ok |-> FALSE, n |-> 0])} :
                  /\ F.modules = modules
                  /\ pass[p].pkg < pass[p].nPk =>
                        /\ F.pass[p].pc = "listbench"
                        /\ F.pass[p].skipped = pass[p].pkg
                        /\ F.pass[p].root = pass[p].root
                        /\ F.pass[p].pkg = pass[p].pkg + 1
                  /\ pass[p].pkg = pass[p].nPk =>
                        /\ ~F.pass[p].threw
                        /\ F.pass[p].pc = "done" \/ F.pass[p].root = pass[p].root + 1
            /\ pass[p].skipped # 0 =>
                  \A n \in 1..MaxPkgs :
                      \A G \in {execSettled(ProviderState, p, [ok |-> TRUE, n |-> n])} :
                          \E i \in 1..Len(G.modules) :
                              /\ G.modules[i].name = ModName(pass[p].root)
                              /\ G.modules[i].packages # <<>>
                              /\ G.modules[i].packages[Len(G.modules[i].packages)]
                                    = [path |-> Dir(pass[p].root, pass[p].pkg),
                                       benchmarks |-> n]

\* the probe of package 1 of a folder failed with the signal intact and the
\* pass is probing package 2 of the same folder
C18_Witness ==
    \E p \in PassIds :
        /\ pass[p].pc = "listbench" /\ pass[p].rsig \notin abortedSignals
        /\ pass[p].skipped = 1 /\ pass[p].pkg = 2


\* C19: a pass of loadModules in which the discovery of a workspace folder
\* failed while the signal was not aborted has gone on to every later
\* folder by the time it ends.
C19_FailedRootIsSkipped ==
    \A p \in TreePassIds :
        (tPass[p].pc = "done" /\ tPass[p].failedAt # 0) => tPass[p].root = tFolders


\* C20: when a probe returns benchmarks with the signal intact, the first
\* notification of that step is fired with the package already in the cache
\* (a read of the package at that moment lists its benchmarks) and with the
\* pass still at the probed package, the next probe not yet started; and
\* whenever a step ends the pass, whether by the last command settling, by
\* cancelAll() or by refresh(), the last notification by that pass is the
\* final one and is fired with the cache as the step leaves it.
EndsWithFinalNote(G, p) ==
    (pass[p].pc \in ExecPcs /\ G.pass[p].pc = "done") =>
        \E i \in 1..Len(G.fired) :
            /\ G.fired[i].kind = "final" /\ G.fired[i].by = p
            /\ G.fired[i].packagesLoaded
            /\ G.fired[i].modules = G.modules
            /\ \A j \in (i + 1)..Len(G.fired) : G.fired[j].by # p

C20_NotificationAfterAddition ==
    /\ \A p \in PassIds : \A res \in ExecResults :
          (pass[p].pc \in ExecPcs /\ SameListing(p, res)) =>
              \A G \in {execSettled(ProviderState, p, res)} :
                  /\ EndsWithFinalNote(G, p)
                  /\ (/\ pass[p].pc = "listbench" /\ res.ok /\ res.n > 0
                      /\ pass[p].rsig \notin abortedSignals) =>
                        /\ G.fired # <<>>
                        /\ G.fired[1].kind = "package" /\ G.fired[1].by = p
                        /\ G.fired[1].at = <<"listbench", pass[p].root, pass[p].pkg>>
                        /\ PackageItemGetChildren(
                               PackageItemOf(ModName(pass[p].root),
                                           Dir(pass[p].root, pass[p].pkg)),
                               G.fired[1].modules)
                             = [b \in 1..res.n |->
                                   BenchmarkItemOf(ModName(pass[p].root),
                                                 Dir(pass[p].root, pass[p].pkg), b)]
    /\ abortController <= MaxRefresh =>
          \A E \in SUBSET Awaiting(abortController) : \A p \in PassIds :
              /\ EndsWithFinalNote(cancelAll(ProviderState, E), p)
              /\ EndsWithFinalNote(refresh(ProviderState, E), p)

\* a package with benchmarks is in the cache while its pass probes the next
\* package of the folder
C20_Witness ==
    \E p \in PassIds :
        /\ pass[p].pc = "listbench" /\ pass[p].pkg = 2
        /\ \E i \in 1..Len(modules) :
              /\ modules[i].name = ModName(pass[p].root) /\ modules[i].by = p
              /\ pass[p].root = 1
              /\ Len(modules[i].packages) = 1 /\ modules[i].packages[1].path = 1


\* C21: every package entry of the cache has at least one benchmark.
C21_PackagesHaveBenchmarks ==
    \A i \in 1..Len(modules) : \A j \in 1..Len(modules[i].packages) :
        modules[i].packages[j].benchmarks >= 1

\* a pass is over in which package 1 of the folder was probed and not added
\* (no benchmark, or the probe failed) and package 2 is in the cache
C21_Witness ==
    \E p \in PassIds :
        /\ pass[p].pc = "done" /\ ~pass[p].threw
        /\ abortedSignals = {}
        /\ Len(modules) = 1 /\ Len(modules[1].packages) = 1
        /\ modules[1].packages[1].path = 2


\* C22: no module of the cache holds two package entries with the same
\* directory path, and no two modules of the cache have the same name.
C22_PackagePathsUnique ==
    /\ \A i, j \in 1..Len(modules) : modules[i].name = modules[j].name => i = j
    /\ \A i \in 1..Len(modules) : \A j, k \in 1..Len(modules[i].packages) :
          modules[i].packages[j].path = modules[i].packages[k].path => j = k


\* C23: the benchmark list built from the output of the probe is the
\* sequence of the output lines that start with 'Benchmark', each without
\* its surrounding blanks, in the order printed.
C23_BenchmarksAsEmitted ==
    (fnName \in {"provider.ts", "part_008"} /\ fnRes # <<>>) =>
        \A emitted \in {SelectSeq(fnArg, LAMBDA line : startsWith(line, sBenchmark))} :
            fnRes[1] = [i \in 1..Len(emitted) |-> trim(emitted[i])]


\* C24: the pattern built for the benchmark named X is ^X$; it selects X
\* and selects no other benchmark name, in particular none that X is a
\* proper prefix or a substring of.
C24_RunPatternAnchored ==
    (fnName = "bench" /\ fnRes # <<>>) =>
        /\ fnRes[1] = <<"^">> \o fnArg \o <<"$">>
        /\ matchString(fnRes[1], fnArg)
        /\ \A other \in NamePool \ {fnArg} : ~matchString(fnRes[1], other)

\* the command for BenchmarkX is built, and BenchmarkXY and
\* BenchmarkBenchmarkX are benchmarks of the package
C24_Witness ==
    /\ fnName = "bench" /\ fnRes # <<>>
    /\ fnArg = sBenchmark \o <<"X">>
    /\ \E other \in NamePool \ {fnArg} : startsWith(other, fnArg)
    /\ \E other \in NamePool \ {fnArg} :
          includes(other, fnArg) /\ ~startsWith(other, fnArg)


\* C25: tokens and slots are conserved. While a batch of the Sema runs, the
\* free tokens and the tasks between acquire and release add up to the
\* capacity, and a task that is done or waits holds none; in the slot array
\* a task that is in work holds exactly one slot and every other task holds
\* none; when the batch has returned no benchmark holds a token or a slot.
C25_SlotsReleased ==
    /\ (variant = "sema" /\ batch = "running") =>
          /\ sema.free + Cardinality(InFlight) = SemaCapacity
          /\ \A i \in 1..Len(sema.waiting) : task[sema.waiting[i]] = "waiting"
          /\ sema.waiting # <<>> => sema.free = 0
    /\ (variant = "sema" /\ batch = "returned") =>
          /\ InFlight = {} /\ sema.waiting = <<>>
          /\ \A t \in 1..nBench : task[t] = "done"
    /\ \A t \in ExtBenchmarks :
          Cardinality({i \in 1..concurrency : semaphore[i] = t})
             = IF t \in ExtInFlight THEN 1 ELSE 0
    /\ extPhase = "returned" => \A i \in 1..concurrency : semaphore[i] = 0

\* a batch has returned in which one execution was cancelled, one failed
\* and one returned its records
C25_Witness ==
    /\ variant = "sema" /\ batch = "returned"
    /\ \E t, u, v \in Benchmarks :
          /\ run[t].cancelled /\ run[t].pc = "returned"
          /\ ~run[u].cancelled /\ run[u].ret = <<ErrorItem>>
          /\ run[v].ret = <<AllocationItem>>


\* C26: while a run-all or a run-single command is running under a signal
\* that is not cancelled yet, currentAbortController is the controller of
\* that signal, so that the stop command aborts it.
C26_StopCancelsRunning ==
    /\ (extPhase \in {"collect", "batch"} /\ extSig \notin aborted) => extCtl = extSig
    /\ (extSingle.pc = "reveal" /\ extSingle.sig \notin aborted) => extCtl = extSingle.sig


\* C27: runAllBenchmarks submits a run for exactly the benchmarks of the
\* discovered modules and packages.
C27_RunAllCoversDiscovered ==
    runAllBenchmarks(TreeState)
        = UNION {{<<tModules[i].name, k>> : k \in Range(tModules[i].packages)} :
                    i \in 1..Len(tModules)}


C28_RunSpawnsAgain ==
    /\ modules = <<>> /\ cacheGen = 0
    /\ \A t \in Benchmarks :
           run[t].again =>
               /\ run[t].cancelled \/ (run[t].proc # "none" /\ run[t].path = t)
               /\ run[t].ret = <<AllocationItem>> => run[t].parsed

\* the second run of a benchmark returned freshly parsed records
C28_RunWitness ==
    \E t \in Benchmarks :
        /\ run[t].again /\ run[t].pc = "returned" /\ run[t].parsed
        /\ run[t].ret = <<AllocationItem>> /\ run[t].unlinks = 1


\* C29: every step leaves the cache as it is, or appends one module without
\* packages at the end of the module list, or appends one package at the end
\* of one module's package list and leaves every other entry as it is, or is
\* a refresh() that discards the whole cache
C29_CacheGrowsByAppends ==
    [][ \/ modules' = modules
        \/ modules' = <<>> /\ cacheGen' = cacheGen + 1
        \/ /\ cacheGen' = cacheGen
           /\ Len(modules') = Len(modules) + 1
           /\ SubSeq(modules', 1, Len(modules)) = modules
           /\ modules'[Len(modules')].packages = <<>>
        \/ /\ cacheGen' = cacheGen
           /\ Len(modules') = Len(modules)
           /\ \E i \in 1..Len(modules) :
                  /\ \A j \in 1..Len(modules) : j # i => modules'[j] = modules[j]
                  /\ modules'[i].name = modules[i].name
                  /\ modules'[i].by = modules[i].by
                  /\ Len(modules'[i].packages) = Len(modules[i].packages) + 1
                  /\ SubSeq(modules'[i].packages, 1, Len(modules[i].packages))
                         = modules[i].packages
      ]_vars

\* two modules were cached and the first one holds two packages of
\* different directories, in the order of their discovery
C29_Witness ==
    /\ Len(modules) = 2 /\ cacheGen = 0
    /\ Len(modules[1].packages) = 2
    /\ modules[1].packages[1].path < modules[1].packages[2].path
    /\ Len(modules[2].packages) >= 1


\* C30: the key computed for a benchmark is the key of no pair with another
\* package directory or another benchmark name, in either index
C30_KeyUnique ==
    (fnName \in {"getKey", "getBenchmarkKey"} /\ fnRes # <<>>) =>
        \A q \in DirPool \X NamePool :
            (resolve(q[1]) # resolve(fnArg[1]) \/ q[2] # fnArg[2]) =>
                KeyOf(fnName, q[1], q[2]) # fnRes[1]

\* a key was computed for a directory which path.resolve rewrote and whose
\* resolved name reads like the key of a benchmark of another directory
C30_Witness ==
    /\ fnName = "getKey" /\ fnRes # <<>>
    /\ resolve(fnArg[1]) # fnArg[1]
    /\ \E q \in DirPool \X NamePool :
           /\ resolve(q[1]) # resolve(fnArg[1])
           /\ KeyOf(fnName, q[1], q[2]) = resolve(fnArg[1])


\* the words of a line, as the columns of the listing show them
Words(l) == SelectSeq(split(trim(l), " "), LAMBDA w : w # <<>>)

\* a cost column of the listing: a size, or the dot pprof prints for none
IsSize(w) == w # <<>> /\ SizeEnd(w, 1) = Len(w)
IsColumn(w) == w = <<".">> \/ IsSize(w)
ColumnCost(w) == IF w = <<".">> THEN s0B ELSE w

\* line l is an annotated line with its two cost columns, of which exactly
\* one is blank and the other holds a cost, and a positive line number
HasOneBlankColumn(l) ==
    With(Words(l), LAMBDA w :
        /\ Len(w) >= 4
        /\ IsColumn(w[1]) /\ IsColumn(w[2])
        /\ (w[1] = <<".">>) # (w[2] = <<".">>)
        /\ ColumnCost(w[1]) # s0B \/ ColumnCost(w[2]) # s0B
        /\ Len(w[3]) >= 2 /\ w[3][Len(w[3])] = ":"
        /\ Run(w[3], 1, Digit) = Len(w[3]) - 1
        /\ parseInt(SubSeq(w[3], 1, Len(w[3]) - 1)) > 0
        /\ ~includes(l, sTotal) /\ ~includes(l, sROUTINE))

\* C31: a handled line inside a routine with one blank cost column yields a
\* record whose cost for the blank column is zero and whose other cost is
\* the value of the line
C31_BlankColumnIsZero ==
    parser = "stream" =>
        \A i \in 1..pos :
            (InsideRoutine(i) /\ HasOneBlankColumn(listing[i])) =>
                \E k \in 1..Len(items) :
                    /\ items[k].at = i
                    /\ items[k].flat = ColumnCost(Words(listing[i])[1])
                    /\ items[k].cum = ColumnCost(Words(listing[i])[2])


\* C32: two executions that are in flight together have different temporary
\* paths
C32_PathsUnique ==
    (fnName = "memprofilePath" /\ fnRes # <<>>) => fnRes[1] # fnRes[2]

\* C32, what the name gives: two executions have the same path only when
\* they read the same instant, drew the same token and run in the same
\* process
C32_SamePathSameParts ==
    (fnName = "memprofilePath" /\ fnRes # <<>>) =>
        (fnRes[1] = fnRes[2] <=> fnArg[1] = fnArg[2])


\* C33: the loaded flag is set only when a pass that started after the most
\* recent refresh() (any pass, when there was no refresh) has ended, and
\* discoveryInProgress is false only when no pass with a live signal runs
C33_CancelledPassLeavesFlags ==
    /\ packagesLoaded =>
           \E p \in 1..nPass :
               /\ pass[p].pc = "done"
               /\ sinceRefresh = "none" \/ (newPass # 0 /\ p >= newPass)
    /\ ~discoveryInProgress =>
           \A p \in 1..nPass :
               pass[p].pc \in ExecPcs => pass[p].sig \in abortedSignals


\* C34: the packages are marked as loaded only when a pass has ended that
\* went through every workspace folder, not one that cancellation ended
C34_LoadedOnlyAfterFullPass ==
    packagesLoaded => \E p \in 1..nPass : pass[p].pc = "done" /\ ~pass[p].threw


\* C34, TreeDataProvider: ensureLoaded() has resolved for findBenchmark()
\* only on a pass that no failure ended early
C34_EnsureLoadedAfterFullPass ==
    (find.pc = "done" /\ find.awaits # 0 /\ tPass[find.awaits].pc = "done") =>
        tPass[find.awaits].failedAt = 0


\* C35: once the loading promise has settled, findBenchmark() for a
\* benchmark of the discovered structure gives its item
C35_FindsEveryDiscovered ==
    (/\ loadingPromise # 0 /\ tPass[loadingPromise].pc = "done"
     /\ find.pc = "none"
     /\ \E i \in 1..Len(tModules) :
            tModules[i].name = FindKey[1] /\ FindKey[2] \in Range(tModules[i].packages))
    => ensureLoaded([TreeState EXCEPT !.find.key = FindKey]).find.out = "item"


\* C36: every package of the current list was appended by a pass that
\* started on that list, and no directory is in the list twice
C36_OnePassPerList ==
    flatClass = "Provider" =>
    /\ \A k \in 1..Len(flatPackages) : flatPass[flatPackages[k].by].gen = flatGen
    /\ \A j, k \in 1..Len(flatPackages) :
           flatPackages[j].path = flatPackages[k].path => j = k


C38_PassEndsAndClearsFlag ==
    /\ \A p \in PassIds :
           (flatPass[p].pc \in {"listpk", "listbench"}) ~> (flatPass[p].pc = "done")
    /\ [][\A p \in PassIds :
              (flatPass[p].pc # "done" /\ flatPass'[p].pc = "done") =>
                  ~flatInProgress' /\ flatPass'[p].notified]_vars


\* C38, without the branch of GoAllocationsProvider for no open folder
C38_FlatExceptNoFolders ==
    /\ \A p \in PassIds :
           (flatPass[p].pc \in {"listpk", "listbench"}) ~> (flatPass[p].pc = "done")
    /\ [][\A p \in PassIds :
              (/\ flatPass[p].pc # "done" /\ flatPass'[p].pc = "done"
               /\ flatClass = "Provider" \/ flatFolders > 0) =>
                  ~flatInProgress' /\ flatPass'[p].notified]_vars

\* C38, Provider of provider.ts: every pass ends, and the step that ends a
\* pass leaves discoveryInProgress false
C38_DiscPassEnds ==
    /\ \A p \in PassIds : (pass[p].pc \in ExecPcs) ~> (pass[p].pc = "done")
    /\ [][\A p \in PassIds :
              (pass[p].pc # "done" /\ pass'[p].pc = "done") =>
                  ~discoveryInProgress']_vars


-----------------------------------------------------------------------------
\* C39: when every benchmark execution eventually ends, a batch run
\* eventually returns, a benchmark that waits for a slot eventually leaves
\* the wait, and it leaves it without being run only when the signal of the
\* batch was cancelled.
C39_BatchReturnsNoneWaits ==
    /\ (batch = "running" \/ extPhase \in {"collect", "batch"})
           ~> (batch = "returned" \/ extPhase = "returned")
    /\ [](/\ batch = "returned" => \A t \in Benchmarks : task[t] \in {"none", "done"}
          /\ extPhase = "returned" =>
                 \A u \in ExtBenchmarks : extTask[u] \in {"none", "done"})
    /\ [][/\ \A t \in Benchmarks :
                 ((task[t] = "waiting" /\ task'[t] # "waiting") =>
                     (\/ task'[t] = "reveal"
                      \/ task'[t] = "done" /\ batchSig \in aborted))
           /\ \A u \in ExtBenchmarks :
                 ((extTask[u] = "polling" /\ extTask'[u] # "polling") =>
                     (\/ extTask'[u] = "reveal"
                      \/ extTask'[u] = "done" /\ extSig \in aborted))]_vars

\* a batch over more benchmarks than slots returned without cancellation:
\* the last benchmark had to wait for its slot and was run
C39_Witness ==
    /\ variant = "poll" /\ extN = MaxExtBench /\ extPhase = "returned"
    /\ extSig \notin aborted
    /\ \A t \in ExtBenchmarks : extTask[t] = "done"

\* the same for the Sema runner
C39_SemaWitness ==
    /\ variant = "sema" /\ nBench = MaxBench /\ batch = "returned"
    /\ batchSig \notin aborted
    /\ \A t \in Benchmarks : run[t].pc = "returned" /\ run[t].parsed

=============================================================================
